---- MODULE Spec2Model ----
(***************************************************************************)
(* The anti-theft alarm "Te Peguei!" (App component, src/unnamed/part_001) *)
(* as a state machine.                                                     *)
(*                                                                         *)
(* React state (useState) is the set of variables isServiceActive,         *)
(* isArming, isAlarmPlaying, logs, errorMessage, supportedSensors.  The    *)
(* refs (useRef) are the variables whose name ends in Ref.  `rendered` is  *)
(* the state as of the last committed render: the passive effects          *)
(* (useEffect) copy it into the state refs and start/stop the sensors.     *)
(*                                                                         *)
(* Scheduling.  Every handler runs to completion (one action).  A user     *)
(* intent (a click) is rendered and its effects are flushed before the     *)
(* next event; state set from a timer, a sensor callback, a promise or a   *)
(* geolocation callback is rendered by a later task (action RenderTask),   *)
(* so other events may be delivered in between, with the refs still        *)
(* holding the previous render's values.                                   *)
(*                                                                         *)
(* Intents.  toggleService may be called in every state; stopAlarm is      *)
(* called by the main button when it was rendered with isAlarmPlaying.     *)
(* The volume buttons call adjustVolume.  The donation dialog and           *)
(* unmounting are left out.                                                *)
(*                                                                         *)
(* Faults.  platform.throws are the sensors whose constructor or start()   *)
(* throws, platform.errors those whose start fails with an error event.    *)
(*                                                                         *)
(* Clock.  now is Date.now() in milliseconds; it advances in LogSpec only, *)
(* the other specifications run within one millisecond and no property     *)
(* checked under them reads an id.                                         *)
(*                                                                         *)
(* Siren.  oscillatorRef and gainNodeRef hold the tone of the last burst   *)
(* until its onended callback releases them; gainValue is the gain set on  *)
(* that tone, intervalVolume the alarmVolume captured by the playSirenBurst*)
(* that the repeat timer calls.  Volumes are in hundredths.                *)
(*                                                                         *)
(* History.  calls is the set of orchestrator functions called in the last *)
(* step (in LogSpec: of the log functions called, in RotationSpec also the *)
(* gyroscope's "onreading"); unread is the set of sensor kinds subscribed  *)
(* and yet to deliver a reading; tonesInFlight counts the tones started    *)
(* and neither stopped nor ended; endedPending says that a tone was        *)
(* stopped and its onended callback is still to run (delivered in          *)
(* GyroscopeSpec only); gyroscopeReadings holds the last two readings of   *)
(* the started gyroscope (recorded in RotationSpec only); alarmStopped says*)
(* that stopAlarm has been called (recorded in RearmSpec only).  None is   *)
(* read by the program.                                                    *)
(*                                                                         *)
(* Advisory text.  errorMessage is the set of advisories shown; errorText  *)
(* is the advisory as the string appendErrorMessage builds, a sequence of  *)
(* characters and words; it changes in AdvisorySpec only.                  *)
(*                                                                         *)
(* Main button.  In ControlsSpec the intents come through the main button  *)
(* of Controls (MainButtonClick), which reads the rendered flags.          *)
(*                                                                         *)
(* Service worker.  worker is the state of src/service-worker.js: its      *)
(* cache, the fetch event it is handling and the cache.put calls still to  *)
(* complete.  It runs in WorkerSpec only and shares nothing with the App.  *)
(*                                                                         *)
(* Units.  Accelerations are in 0.1 m/s^2, angular velocities in 0.1 rad/s,*)
(* so that the thresholds 0.6 and 0.7 are the integers 6 and 7.            *)
(***************************************************************************)
EXTENDS Integers, Sequences, FiniteSets, TLC

VARIABLES
  isServiceActive, isArming, isAlarmPlaying, logs, errorMessage, supportedSensors,
  rendered,
  isServiceActiveRef, isArmingRef, isAlarmPlayingRef, supportedSensorsRef,
  lastAccelRef, lastIlluminanceRef, lastMagnetometerReadingRef, lastPressureRef,
  armingTimeoutRef, alarmIntervalRef, oscillatorRef, gainNodeRef, audioContextRef,
  gyroscopeRef, proximitySensorRef, lightSensorRef, magnetometerRef, barometerRef,
  prevIsArmingRef, hasLoggedActivationRef,
  orphanArmingTimers, activationLogTimer,
  motionListener, staleMotionListeners, motionPermission, stalePermissions,
  proximityListener, activatePending, geoPending,
  platform, calls, unread,
  alarmVolume, now, gainValue, intervalVolume, tonesInFlight, endedPending,
  gyroscopeReadings, errorText, alarmStopped, worker

vars == << isServiceActive, isArming, isAlarmPlaying, logs, errorMessage, supportedSensors,
  rendered,
  isServiceActiveRef, isArmingRef, isAlarmPlayingRef, supportedSensorsRef,
  lastAccelRef, lastIlluminanceRef, lastMagnetometerReadingRef, lastPressureRef,
  armingTimeoutRef, alarmIntervalRef, oscillatorRef, gainNodeRef, audioContextRef,
  gyroscopeRef, proximitySensorRef, lightSensorRef, magnetometerRef, barometerRef,
  prevIsArmingRef, hasLoggedActivationRef,
  orphanArmingTimers, activationLogTimer,
  motionListener, staleMotionListeners, motionPermission, stalePermissions,
  proximityListener, activatePending, geoPending,
  platform, calls, unread,
  alarmVolume, now, gainValue, intervalVolume, tonesInFlight, endedPending,
  gyroscopeReadings, errorText, alarmStopped, worker >>

Null == "null"
\* A ref that holds no reading; a reading is the tuple of its components.
NoReading == << >>

----------------------------------------------------------------------------
(* Program constants *)

MOTION_THRESHOLD == 6
GYROSCOPE_THRESHOLD == 7
LIGHT_CHANGE_THRESHOLD_LUX == 50
PROXIMITY_FALLBACK_THRESHOLD_CM == 5
MAGNETOMETER_CHANGE_THRESHOLD_UT == 20
BAROMETER_CHANGE_THRESHOLD_PA == 20
\* prevLogs.slice(0, 49): the entries kept behind a new one
LOG_KEEP == 49
\* useState<number>(0.9), Math.min(1, ...) and adjustVolume(0.1), in hundredths
INITIAL_VOLUME == 90
MAX_VOLUME == 100
VOLUME_STEP == 10

----------------------------------------------------------------------------
(* Bounds of the model *)

\* longest log explored
MaxLog == 3
\* most geolocation requests in flight
MaxGeo == 2
\* most devicemotion permission requests or listeners outliving their effect
MaxStale == 1
\* most clock ticks, and most log entries written within one millisecond
MaxTicks == 2
MaxSameMs == 2
\* most steps of 0.1 that the volume is moved away from its initial value
\* while the sensors and the siren run
MaxVolumeSteps == 1

----------------------------------------------------------------------------
(* Inputs: the readings the sensors deliver *)

AccelReadings == { <<0, 0, 98>>, <<0, 0, 104>>, <<0, 0, 110>>, <<4, 4, 100>> }
GyroReadings == { <<1, 1, 7>>, <<1, 1, 8>>, <<0, 0, 8>> }
\* with the reading of a device at rest
RotationReadings == GyroReadings \cup { <<0, 0, 0>> }
ProximityReadings == { TRUE, FALSE }
\* <<value, max>> of a deviceproximity event
ProximityEvents == { <<4, 5>>, <<5, 5>>, <<0, 0>> }
LightReadings == { <<100>>, <<150>>, <<151>> }
MagnetometerReadings == { <<0, 0, 0>>, <<20, 0, 0>>, <<0, 21, 0>> }
PressureReadings == { <<1000>>, <<1020>>, <<1021>> }

Abs(n) == IF n < 0 THEN -n ELSE n
Min(a, b) == IF a < b THEN a ELSE b
Max(a, b) == IF a > b THEN a ELSE b

----------------------------------------------------------------------------
(* The program state as one record, so that a handler is a function from   *)
(* state to state and the calls it makes compose.                          *)

Cur ==
  [ isServiceActive |-> isServiceActive, isArming |-> isArming,
    isAlarmPlaying |-> isAlarmPlaying, logs |-> logs, errorMessage |-> errorMessage,
    supportedSensors |-> supportedSensors, rendered |-> rendered,
    isServiceActiveRef |-> isServiceActiveRef, isArmingRef |-> isArmingRef,
    isAlarmPlayingRef |-> isAlarmPlayingRef, supportedSensorsRef |-> supportedSensorsRef,
    lastAccelRef |-> lastAccelRef, lastIlluminanceRef |-> lastIlluminanceRef,
    lastMagnetometerReadingRef |-> lastMagnetometerReadingRef,
    lastPressureRef |-> lastPressureRef,
    armingTimeoutRef |-> armingTimeoutRef, alarmIntervalRef |-> alarmIntervalRef,
    oscillatorRef |-> oscillatorRef, gainNodeRef |-> gainNodeRef,
    audioContextRef |-> audioContextRef,
    gyroscopeRef |-> gyroscopeRef, proximitySensorRef |-> proximitySensorRef,
    lightSensorRef |-> lightSensorRef, magnetometerRef |-> magnetometerRef,
    barometerRef |-> barometerRef,
    prevIsArmingRef |-> prevIsArmingRef, hasLoggedActivationRef |-> hasLoggedActivationRef,
    orphanArmingTimers |-> orphanArmingTimers, activationLogTimer |-> activationLogTimer,
    motionListener |-> motionListener, staleMotionListeners |-> staleMotionListeners,
    motionPermission |-> motionPermission, stalePermissions |-> stalePermissions,
    proximityListener |-> proximityListener, activatePending |-> activatePending,
    geoPending |-> geoPending, platform |-> platform, calls |-> {},
    unread |-> unread, alarmVolume |-> alarmVolume, now |-> now,
    gainValue |-> gainValue, intervalVolume |-> intervalVolume,
    tonesInFlight |-> tonesInFlight, endedPending |-> endedPending,
    gyroscopeReadings |-> gyroscopeReadings, errorText |-> errorText,
    alarmStopped |-> alarmStopped, worker |-> worker ]

\* The sensor kinds that have a live subscription in s.
LiveKinds(s) ==
  (IF s.motionListener \/ s.staleMotionListeners > 0 THEN {"accelerometer"} ELSE {})
  \cup (IF s.gyroscopeRef = "started" THEN {"gyroscope"} ELSE {})
  \cup (IF s.proximitySensorRef = "started" \/ s.proximityListener THEN {"proximity"} ELSE {})
  \cup (IF s.lightSensorRef = "started" THEN {"light"} ELSE {})
  \cup (IF s.magnetometerRef = "started" THEN {"magnetometer"} ELSE {})
  \cup (IF s.barometerRef = "started" THEN {"barometer"} ELSE {})

\* The next state is s.  unread (history) is the set of sensor kinds
\* subscribed and yet to deliver a reading.
Assign(s) ==
  /\ isServiceActive' = s.isServiceActive
  /\ isArming' = s.isArming
  /\ isAlarmPlaying' = s.isAlarmPlaying
  /\ logs' = s.logs
  /\ errorMessage' = s.errorMessage
  /\ supportedSensors' = s.supportedSensors
  /\ rendered' = s.rendered
  /\ isServiceActiveRef' = s.isServiceActiveRef
  /\ isArmingRef' = s.isArmingRef
  /\ isAlarmPlayingRef' = s.isAlarmPlayingRef
  /\ supportedSensorsRef' = s.supportedSensorsRef
  /\ lastAccelRef' = s.lastAccelRef
  /\ lastIlluminanceRef' = s.lastIlluminanceRef
  /\ lastMagnetometerReadingRef' = s.lastMagnetometerReadingRef
  /\ lastPressureRef' = s.lastPressureRef
  /\ armingTimeoutRef' = s.armingTimeoutRef
  /\ alarmIntervalRef' = s.alarmIntervalRef
  /\ oscillatorRef' = s.oscillatorRef
  /\ gainNodeRef' = s.gainNodeRef
  /\ audioContextRef' = s.audioContextRef
  /\ gyroscopeRef' = s.gyroscopeRef
  /\ proximitySensorRef' = s.proximitySensorRef
  /\ lightSensorRef' = s.lightSensorRef
  /\ magnetometerRef' = s.magnetometerRef
  /\ barometerRef' = s.barometerRef
  /\ prevIsArmingRef' = s.prevIsArmingRef
  /\ hasLoggedActivationRef' = s.hasLoggedActivationRef
  /\ orphanArmingTimers' = s.orphanArmingTimers
  /\ activationLogTimer' = s.activationLogTimer
  /\ motionListener' = s.motionListener
  /\ staleMotionListeners' = s.staleMotionListeners
  /\ motionPermission' = s.motionPermission
  /\ stalePermissions' = s.stalePermissions
  /\ proximityListener' = s.proximityListener
  /\ activatePending' = s.activatePending
  /\ geoPending' = s.geoPending
  /\ platform' = s.platform
  /\ calls' = s.calls
  /\ alarmVolume' = s.alarmVolume
  /\ now' = s.now
  /\ gainValue' = s.gainValue
  /\ intervalVolume' = s.intervalVolume
  /\ tonesInFlight' = s.tonesInFlight
  /\ endedPending' = s.endedPending
  /\ errorText' = s.errorText
  /\ alarmStopped' = s.alarmStopped
  /\ worker' = s.worker
  /\ gyroscopeReadings' =
       IF s.gyroscopeRef = "started" THEN s.gyroscopeReadings ELSE << >>
  /\ unread' = (s.unread \cap LiveKinds(s)) \cup (LiveKinds(s) \ LiveKinds(Cur))

\* The next state is s, within the bounds of the model.
Set(s) ==
  /\ Len(s.logs) <= MaxLog
  /\ Len(s.geoPending) <= MaxGeo
  /\ s.staleMotionListeners + s.stalePermissions <= MaxStale
  /\ Assign(s)

\* Which of toggleService, stopAlarm, triggerAlarm and startAlarmSound the
\* handler of a step called, kept for that step.
Called(s, f) == [s EXCEPT !.calls = @ \cup {f}]

\* The state in which a reading of the sensor kind is being delivered.
Delivering(kind) == [Cur EXCEPT !.unread = @ \ {kind}]

----------------------------------------------------------------------------
(* Advisory text and incident log *)

\* An advisory message: the text before " (" or ":" and the length of the whole.
Message(base, length) == [base |-> base, length |-> length]

\* `ALERTA! ${detectionSource}`
AlertMessage(detectionSource) ==
  [base |-> "alert", length |-> 1, source |-> detectionSource]

appendErrorMessage(s, newMessage) ==
  LET prev == s.errorMessage
      Similar(msg) == msg.base = newMessage.base
      Other(msg) == ~Similar(msg)
      found == SelectSeq(prev, Similar)
  IN  IF prev = <<>> THEN [s EXCEPT !.errorMessage = <<newMessage>>]
      ELSE IF Len(prev) = 1 /\ prev[1] = newMessage THEN s
      ELSE IF found # <<>>
        THEN IF newMessage.length > found[1].length
               THEN [s EXCEPT !.errorMessage = SelectSeq(prev, Other) \o <<newMessage>>]
               ELSE s
      ELSE [s EXCEPT !.errorMessage = Append(prev, newMessage)]

\* The advisory text character by character.  A text is the sequence of its
\* characters; null and "" are both the empty sequence.

\* text.split(separator), separator not empty; cur is the piece being read
RECURSIVE SplitFrom(_, _, _)
SplitFrom(rest, separator, cur) ==
  IF rest = << >> THEN << cur >>
  ELSE IF /\ Len(rest) >= Len(separator)
          /\ SubSeq(rest, 1, Len(separator)) = separator
    THEN << cur >>
           \o SplitFrom(SubSeq(rest, Len(separator) + 1, Len(rest)), separator, << >>)
  ELSE SplitFrom(Tail(rest), separator, Append(cur, Head(rest)))

Split(text, separator) == SplitFrom(text, separator, << >>)

\* text.includes(part)
Includes(text, part) ==
  \E i \in 0..(Len(text) - Len(part)) : SubSeq(text, i + 1, i + Len(part)) = part

\* lines.join('\n')
RECURSIVE Join(_)
Join(lines) ==
  IF lines = << >> THEN << >>
  ELSE IF Len(lines) = 1 THEN lines[1]
  ELSE lines[1] \o <<"\n">> \o Join(Tail(lines))

\* newMessage.split(' (')[0].split(':')[0]
MessageBase(newMessage) == Split(Split(newMessage, <<" ", "(">>)[1], <<":">>)[1]

\* the updater with `${prev}\n${newMessage}` in every case
appendErrorMessageText_Always(prev, newMessage) ==
  IF prev = << >> THEN newMessage ELSE prev \o <<"\n">> \o newMessage

\* The updater of appendErrorMessage on the text itself.
appendErrorMessageText(prev, newMessage) ==
  LET existingMessages == Split(prev, <<"\n">>)
      newMessageBase == MessageBase(newMessage)
      Has(msg) == Includes(msg, newMessageBase)
      HasNot(msg) == ~Includes(msg, newMessageBase)
      found == SelectSeq(existingMessages, Has)
  IN  IF prev = << >> THEN newMessage
      ELSE IF Len(existingMessages) = 1 /\ existingMessages[1] = newMessage THEN prev
      ELSE IF found # << >>
        THEN IF Len(newMessage) > Len(found[1])
               THEN Join(SelectSeq(existingMessages, HasNot) \o <<newMessage>>)
               ELSE prev
      ELSE prev \o <<"\n">> \o newMessage

setErrorMessage(s, message) == [s EXCEPT !.errorMessage = <<message>>]

\* A log entry: its id (Date.now().toString(), now being the clock in
\* milliseconds), what the message says, and whether it carries coordinates.
LogEntry(id, message, coordinates) ==
  [id |-> id, message |-> message, coordinates |-> coordinates]

\* addLogEntry with [newLog, ...prevLogs] (no slice)
addLogEntry_NoSlice(s, message, coordinates) ==
  [s EXCEPT !.logs = <<LogEntry(s.now, message, coordinates)>> \o @]

addLogEntry(s, message, coordinates) ==
  [s EXCEPT !.logs = <<LogEntry(s.now, message, coordinates)>>
                      \o SubSeq(@, 1, Min(Len(@), LOG_KEEP))]

\* clearLogs with setLogs([])
clearLogs_Empty(s) == [s EXCEPT !.logs = << >>]

clearLogs(s) == [s EXCEPT !.logs = <<LogEntry(s.now, <<"cleared">>, FALSE)>>]

----------------------------------------------------------------------------
(* Alarm engine *)

\* new AudioContext(): the state the platform creates it in, or unsupported.
getAudioContext(s) ==
  IF s.audioContextRef = Null
    THEN IF s.platform.audio = "unsupported"
           THEN appendErrorMessage(s, Message("audioUnsupported", 1))
           ELSE [s EXCEPT !.audioContextRef = s.platform.audio]
    ELSE s

\* oscillatorRef.current.stop() and disconnect(), if the ref holds a tone
\* source: the tone ends, and its onended handler is yet to run.
stopOscillator(s) ==
  IF s.oscillatorRef # Null
    THEN [s EXCEPT !.tonesInFlight = @ - 1, !.endedPending = TRUE]
    ELSE s

\* playSirenBurst that starts the new tone without stopping the previous one
playSirenBurst_Overlapping(s, volume) ==
  LET s1 == getAudioContext(s)
  IN  IF s1.audioContextRef # "running" THEN s1
      ELSE [s1 EXCEPT !.oscillatorRef = "oscillator", !.gainNodeRef = "gain",
                      !.gainValue = volume, !.tonesInFlight = @ + 1]

\* playSirenBurst as created by a render whose alarmVolume was volume:
\* gainNode.gain.setValueAtTime(alarmVolume, ...) uses that value.
playSirenBurst(s, volume) ==
  LET s1 == getAudioContext(s)
  IN  IF s1.audioContextRef # "running" THEN s1
      ELSE [stopOscillator(s1) EXCEPT !.oscillatorRef = "oscillator", !.gainNodeRef = "gain",
                                      !.gainValue = volume, !.tonesInFlight = @ + 1]

\* oscillator.onended of a burst; own: oscillatorRef.current === oscillator.
oscillatorOnEnded(s, own) ==
  IF own THEN [s EXCEPT !.oscillatorRef = Null, !.gainNodeRef = Null, !.gainValue = 0]
  ELSE s

startAlarmSound(s) ==
  LET s0 == Called(s, "startAlarmSound")
      s1 == IF s0.alarmIntervalRef # Null
              THEN [s0 EXCEPT !.alarmIntervalRef = "cleared", !.intervalVolume = 0]
              ELSE s0
      s2 == getAudioContext(s1)
  IN  IF s2.audioContextRef = "running"
        THEN [playSirenBurst(s2, s.rendered.alarmVolume)
                EXCEPT !.alarmIntervalRef = "active",
                       !.intervalVolume = s.rendered.alarmVolume]
      ELSE IF s2.audioContextRef = "suspended"
        THEN appendErrorMessage(s2, Message("audioSuspended", 1))
      ELSE appendErrorMessage(s2, Message("audioUnavailable", 1))

\* stopAlarmSound that keeps the repeat timer
stopAlarmSound_KeepsTimer(s) ==
  [stopOscillator(s) EXCEPT !.oscillatorRef = Null, !.gainNodeRef = Null, !.gainValue = 0]

stopAlarmSound(s) ==
  [stopOscillator(s) EXCEPT !.alarmIntervalRef = Null, !.intervalVolume = 0,
                            !.oscillatorRef = Null, !.gainNodeRef = Null,
                            !.gainValue = 0]

----------------------------------------------------------------------------
(* Orchestrator *)

\* triggerAlarm without the call of startAlarmSound
triggerAlarm_Silent(s, detectionSource) ==
  LET s0 == Called(s, "triggerAlarm")
  IN  IF s0.isAlarmPlayingRef THEN s0
      ELSE LET s1 == [s0 EXCEPT !.isAlarmPlaying = TRUE]
               s2 == setErrorMessage(s1, AlertMessage(detectionSource))
           IN  IF s2.platform.geo
                 THEN [s2 EXCEPT !.geoPending = Append(@, detectionSource)]
                 ELSE appendErrorMessage(
                        addLogEntry(s2, <<"alarm", detectionSource, "unsupported">>, FALSE),
                        Message("geoUnsupported", 1))

triggerAlarm(s, detectionSource) ==
  LET s0 == Called(s, "triggerAlarm")
  IN  IF s0.isAlarmPlayingRef THEN s0
      ELSE LET s1 == startAlarmSound([s0 EXCEPT !.isAlarmPlaying = TRUE])
               s2 == setErrorMessage(s1, AlertMessage(detectionSource))
           IN  IF s2.platform.geo
                 THEN [s2 EXCEPT !.geoPending = Append(@, detectionSource)]
                 ELSE appendErrorMessage(
                        addLogEntry(s2, <<"alarm", detectionSource, "unsupported">>, FALSE),
                        Message("geoUnsupported", 1))

clearBaselines(s) ==
  [s EXCEPT !.lastAccelRef = NoReading, !.lastIlluminanceRef = NoReading,
            !.lastMagnetometerReadingRef = NoReading, !.lastPressureRef = NoReading]

\* clearTimeout(armingTimeoutRef.current): cancels the timer if it is still
\* pending, and does nothing to one that has fired or was cancelled.
clearArmingTimeout(s) ==
  IF s.armingTimeoutRef = "pending" THEN [s EXCEPT !.armingTimeoutRef = "cleared"] ELSE s

\* stopAlarm without setIsServiceActive(false) and setIsArming(false)
stopAlarm_KeepsService(s) ==
  LET s1 == stopAlarmSound([s EXCEPT !.isAlarmPlaying = FALSE])
      s2 == setErrorMessage(s1, Message("alarmStopped", 1))
  IN  clearArmingTimeout(Called(clearBaselines(s2), "stopAlarm"))

stopAlarm(s) ==
  LET s1 == stopAlarmSound([s EXCEPT !.isAlarmPlaying = FALSE])
      s2 == setErrorMessage(s1, Message("alarmStopped", 1))
      s3 == clearBaselines([s2 EXCEPT !.isServiceActive = FALSE, !.isArming = FALSE])
  IN  clearArmingTimeout(Called(s3, "stopAlarm"))

toggleService(s) ==
  LET s0 == Called(s, "toggleService")
      s1 == getAudioContext([s0 EXCEPT !.errorMessage = <<>>, !.supportedSensors = <<>>])
  IN  IF s1.isServiceActiveRef \/ s1.isArmingRef
        THEN LET s2 == clearArmingTimeout(s1)
                 s3 == clearBaselines([s2 EXCEPT !.isServiceActive = FALSE,
                                                 !.isArming = FALSE])
                 s4 == IF s3.isAlarmPlayingRef THEN stopAlarm(s3)
                       ELSE setErrorMessage(s3, Message("deactivated", 1))
             IN  addLogEntry(s4, <<"deactivated">>, FALSE)
        ELSE LET s2 == [s1 EXCEPT !.isArming = TRUE, !.isServiceActive = TRUE]
                 s3 == addLogEntry(setErrorMessage(s2, Message("arming", 1)),
                                   <<"arming">>, FALSE)
             IN  [s3 EXCEPT !.armingTimeoutRef = "pending",
                            !.orphanArmingTimers =
                               IF s.armingTimeoutRef = "pending" THEN @ + 1 ELSE @]

\* An arming timer callback that always returns early
armingTimeout_Returns(s) == s

\* The callback of the arming timer.
armingTimeout(s) ==
  IF ~s.isServiceActiveRef \/ ~s.isArmingRef THEN s
  ELSE setErrorMessage(clearBaselines([s EXCEPT !.isArming = FALSE]),
                       Message("active", 1))

\* adjustVolume that also ends the alarm when the volume is lowered
adjustVolume_Silences(s, delta) ==
  [s EXCEPT !.alarmVolume = Max(0, Min(MAX_VOLUME, @ + delta)),
            !.isAlarmPlaying = @ /\ delta > 0]

\* adjustVolume without Math.max / Math.min
adjustVolume_Unclamped(s, delta) == [s EXCEPT !.alarmVolume = @ + delta]

\* setAlarmVolume(prev => Math.max(0, Math.min(1, prev + delta))), in
\* hundredths; the gain of the tone being played is set to the new volume.
\* adjustVolume that leaves the tone being played at its gain
adjustVolume_KeepsGain(s, delta) ==
  [s EXCEPT !.alarmVolume = Max(0, Min(MAX_VOLUME, s.alarmVolume + delta))]

adjustVolume(s, delta) ==
  LET newVolume == Max(0, Min(MAX_VOLUME, s.alarmVolume + delta))
  IN  [s EXCEPT !.alarmVolume = newVolume,
                !.gainValue = IF s.gainNodeRef # Null /\ s.audioContextRef = "running"
                                THEN newVolume ELSE @]

addSupportedSensor(s, name) ==
  IF \E i \in 1..Len(s.supportedSensors) : s.supportedSensors[i] = name THEN s
  ELSE [s EXCEPT !.supportedSensors = Append(@, name)]

----------------------------------------------------------------------------
(* Sensor callbacks *)

\* Every reading callback starts with this test of the state refs.
Gated(s) == s.isArmingRef \/ s.isAlarmPlayingRef \/ ~s.isServiceActiveRef

\* totalDelta >= MOTION_THRESHOLD in place of totalDelta > MOTION_THRESHOLD
MotionExceeds_Inclusive(r, last) ==
  LET deltaX == Abs(r[1] - last[1])
      deltaY == Abs(r[2] - last[2])
      deltaZ == Abs(r[3] - last[3])
  IN  deltaX * deltaX + deltaY * deltaY + deltaZ * deltaZ
        >= MOTION_THRESHOLD * MOTION_THRESHOLD

\* totalDelta > MOTION_THRESHOLD, with both sides squared (units of 0.1 m/s^2)
MotionExceeds(r, last) ==
  LET deltaX == Abs(r[1] - last[1])
      deltaY == Abs(r[2] - last[2])
      deltaZ == Abs(r[3] - last[3])
  IN  deltaX * deltaX + deltaY * deltaY + deltaZ * deltaZ
        > MOTION_THRESHOLD * MOTION_THRESHOLD

\* keeps the old baseline when the reading raises the alarm
motionHandlerInternal_KeepsBaseline(s, r) ==
  IF Gated(s) \/ r = NoReading THEN s
  ELSE IF s.lastAccelRef = NoReading THEN [s EXCEPT !.lastAccelRef = r]
  ELSE IF MotionExceeds(r, s.lastAccelRef) THEN triggerAlarm(s, "accelerometer")
  ELSE [s EXCEPT !.lastAccelRef = r]

motionHandlerInternal(s, r) ==
  IF Gated(s) \/ r = NoReading THEN s
  ELSE IF s.lastAccelRef = NoReading THEN [s EXCEPT !.lastAccelRef = r]
  ELSE LET s1 == IF MotionExceeds(r, s.lastAccelRef)
                   THEN triggerAlarm(s, "accelerometer") ELSE s
       IN  [s1 EXCEPT !.lastAccelRef = r]

\* !sensor.x || !sensor.y || !sensor.z: an axis that reads 0 (or null) is falsy
GyroscopeFalsy(r) == r[1] = 0 \/ r[2] = 0 \/ r[3] = 0

GyroscopeExceeds(r) ==
  \/ Abs(r[1]) > GYROSCOPE_THRESHOLD
  \/ Abs(r[2]) > GYROSCOPE_THRESHOLD
  \/ Abs(r[3]) > GYROSCOPE_THRESHOLD

gyroscopeOnReading(s, r) ==
  IF Gated(s) \/ GyroscopeFalsy(r) THEN s
  ELSE IF GyroscopeExceeds(r) THEN triggerAlarm(s, "gyroscope") ELSE s

proximityOnReading(s, near) ==
  IF Gated(s) THEN s
  ELSE IF near THEN triggerAlarm(s, "proximity") ELSE s

\* ev = <<value, max>>
proximityEventHandler(s, ev) ==
  IF Gated(s) THEN s
  ELSE IF ev[1] < PROXIMITY_FALLBACK_THRESHOLD_CM /\ ev[1] < ev[2]
         THEN triggerAlarm(s, "proximityLegacy") ELSE s

lightOnActivate(s, illuminance) ==
  IF illuminance # NoReading THEN [s EXCEPT !.lastIlluminanceRef = illuminance] ELSE s

lightOnReading(s, illuminance) ==
  IF Gated(s) \/ illuminance = NoReading THEN s
  ELSE LET s1 == IF s.lastIlluminanceRef # NoReading
                      /\ Abs(illuminance[1] - s.lastIlluminanceRef[1])
                           > LIGHT_CHANGE_THRESHOLD_LUX
                   THEN triggerAlarm(s, "light") ELSE s
       IN  [s1 EXCEPT !.lastIlluminanceRef = illuminance]

MagnetometerExceeds(r, last) ==
  \/ Abs(r[1] - last[1]) > MAGNETOMETER_CHANGE_THRESHOLD_UT
  \/ Abs(r[2] - last[2]) > MAGNETOMETER_CHANGE_THRESHOLD_UT
  \/ Abs(r[3] - last[3]) > MAGNETOMETER_CHANGE_THRESHOLD_UT

magnetometerOnReading(s, r) ==
  IF Gated(s) \/ r = NoReading THEN s
  ELSE IF s.lastMagnetometerReadingRef = NoReading
         THEN [s EXCEPT !.lastMagnetometerReadingRef = r]
  ELSE LET s1 == IF MagnetometerExceeds(r, s.lastMagnetometerReadingRef)
                   THEN triggerAlarm(s, "magnetometer") ELSE s
       IN  [s1 EXCEPT !.lastMagnetometerReadingRef = r]

barometerOnActivate(s, pressure) ==
  IF pressure # NoReading THEN [s EXCEPT !.lastPressureRef = pressure] ELSE s

barometerOnReading(s, pressure) ==
  IF Gated(s) \/ pressure = NoReading THEN s
  ELSE LET s1 == IF s.lastPressureRef # NoReading
                      /\ Abs(pressure[1] - s.lastPressureRef[1])
                           > BAROMETER_CHANGE_THRESHOLD_PA
                   THEN triggerAlarm(s, "barometer") ELSE s
       IN  [s1 EXCEPT !.lastPressureRef = pressure]

----------------------------------------------------------------------------
(* Passive effects (useEffect), run after a render is committed *)

\* isAlarmPlayingRef set by the effect and never reset
syncRefs_Latches(s) ==
  [s EXCEPT !.isAlarmPlayingRef = @ \/ s.rendered.isAlarmPlaying,
            !.isServiceActiveRef = s.rendered.isServiceActive,
            !.isArmingRef = s.rendered.isArming,
            !.supportedSensorsRef = s.rendered.supportedSensors]

\* The effects that copy the rendered state into the refs.
syncRefs(s) ==
  [s EXCEPT !.isAlarmPlayingRef = s.rendered.isAlarmPlaying,
            !.isServiceActiveRef = s.rendered.isServiceActive,
            !.isArmingRef = s.rendered.isArming,
            !.supportedSensorsRef = s.rendered.supportedSensors]

\* Effect logging the activation once arming completes.
activationLogEffect(s) ==
  LET wasArming == s.prevIsArmingRef
      s1 == [s EXCEPT !.prevIsArmingRef = s.rendered.isArming]
  IN  IF s.rendered.isServiceActive
        THEN IF wasArming /\ ~s.rendered.isArming /\ ~s.hasLoggedActivationRef
               THEN [s1 EXCEPT !.activationLogTimer = TRUE]
               ELSE s1
        ELSE [s1 EXCEPT !.hasLoggedActivationRef = FALSE]

activationLogCleanup(s) == [s EXCEPT !.activationLogTimer = FALSE]

\* The callback of the timer that activationLogEffect sets.
activationLogTimeout(s) ==
  [addLogEntry(s, <<"active", s.supportedSensorsRef>>, FALSE)
     EXCEPT !.hasLoggedActivationRef = TRUE]

SensorsWanted(s) == s.rendered.isServiceActive /\ ~s.rendered.isArming

accelerometerEffect(s) ==
  IF ~SensorsWanted(s) THEN s
  ELSE IF s.platform.motion = "ios" THEN [s EXCEPT !.motionPermission = "pending"]
  ELSE IF s.platform.motion = "plain"
    THEN addSupportedSensor(
           addLogEntry([s EXCEPT !.motionListener = TRUE],
                       <<"activated", "accelerometer">>, FALSE),
           "accelerometer")
  ELSE s

\* removeEventListener of the effect's own handler; a permission request still
\* pending keeps that handler and outlives the effect.
accelerometerCleanup(s) ==
  [s EXCEPT !.motionListener = FALSE,
            !.motionPermission = "none",
            !.stalePermissions = IF s.motionPermission = "pending" THEN @ + 1 ELSE @]

\* requestPermission().then of the effect that is still current
permissionResolved(s, permissionState) ==
  IF permissionState = "granted"
    THEN addSupportedSensor(
           addLogEntry([s EXCEPT !.motionListener = TRUE, !.motionPermission = "none"],
                       <<"activated", "accelerometer">>, FALSE),
           "accelerometer")
    ELSE appendErrorMessage([s EXCEPT !.motionPermission = "none"],
                            Message("permissionDenied:accelerometer", 1))

\* requestPermission().then of an effect that was cleaned up before it resolved
stalePermissionResolved(s, permissionState) ==
  IF permissionState = "granted"
    THEN addSupportedSensor(
           addLogEntry([s EXCEPT !.staleMotionListeners = @ + 1,
                                 !.stalePermissions = @ - 1],
                       <<"activated", "accelerometer">>, FALSE),
           "accelerometer")
    ELSE appendErrorMessage([s EXCEPT !.stalePermissions = @ - 1],
                            Message("permissionDenied:accelerometer", 1))

\* handleSensorPermissionError: the advisory text names the sensor.
handleSensorPermissionError(s, sensorName) ==
  appendErrorMessage(s, Message("sensorError:" \o sensorName, 1))

\* The ref that holds the Generic Sensor object of the kind.
SensorRef(s, kind) ==
  CASE kind = "gyroscope" -> s.gyroscopeRef
    [] kind = "proximity" -> s.proximitySensorRef
    [] kind = "light" -> s.lightSensorRef
    [] kind = "magnetometer" -> s.magnetometerRef
    [] kind = "barometer" -> s.barometerRef

\* sensor.onerror of the kind's sensor: the sensor object, still held by its
\* ref, is no longer started.
sensorOnError(s, kind) ==
  LET s1 == handleSensorPermissionError(s, kind)
  IN  CASE kind = "gyroscope" -> [s1 EXCEPT !.gyroscopeRef = "errored"]
        [] kind = "proximity" -> [s1 EXCEPT !.proximitySensorRef = "errored"]
        [] kind = "light" ->
             [s1 EXCEPT !.lightSensorRef = "errored", !.lastIlluminanceRef = NoReading,
                        !.activatePending = @ \ {"light"}]
        [] kind = "magnetometer" -> [s1 EXCEPT !.magnetometerRef = "errored"]
        [] kind = "barometer" ->
             [s1 EXCEPT !.barometerRef = "errored", !.lastPressureRef = NoReading,
                        !.activatePending = @ \ {"barometer"}]

gyroscopeEffect(s) ==
  IF ~(SensorsWanted(s) /\ s.platform.gyroscope) THEN s
  ELSE IF "gyroscope" \in s.platform.throws
    THEN handleSensorPermissionError(s, "gyroscope")
    ELSE addSupportedSensor(
           addLogEntry([s EXCEPT !.gyroscopeRef = "started"],
                       <<"activated", "gyroscope">>, FALSE),
           "gyroscope")

gyroscopeCleanup(s) == [s EXCEPT !.gyroscopeRef = Null]

proximityEffect(s) ==
  IF ~SensorsWanted(s) THEN s
  ELSE IF s.platform.proximity = "sensor"
    THEN IF "proximity" \in s.platform.throws
           THEN handleSensorPermissionError(s, "proximity")
           ELSE addSupportedSensor(
                  addLogEntry([s EXCEPT !.proximitySensorRef = "started"],
                              <<"activated", "proximity">>, FALSE),
                  "proximity")
  ELSE IF s.platform.proximity = "legacy"
    THEN addSupportedSensor(
           addLogEntry([s EXCEPT !.proximityListener = TRUE],
                       <<"activated", "proximityLegacy">>, FALSE),
           "proximityLegacy")
  ELSE s

proximityCleanup(s) ==
  [s EXCEPT !.proximitySensorRef = Null, !.proximityListener = FALSE]

lightEffect(s) ==
  IF ~(SensorsWanted(s) /\ s.platform.light) THEN s
  ELSE IF "light" \in s.platform.throws
    THEN [handleSensorPermissionError(s, "light") EXCEPT !.lastIlluminanceRef = NoReading]
    ELSE addSupportedSensor(
           addLogEntry([s EXCEPT !.lightSensorRef = "started",
                                 !.activatePending = @ \cup {"light"}],
                       <<"activated", "light">>, FALSE),
           "light")

lightCleanup(s) ==
  [s EXCEPT !.lightSensorRef = Null, !.lastIlluminanceRef = NoReading,
            !.activatePending = @ \ {"light"}]

\* magnetometerEffect that does not start its sensor once another sensor's
\* constructor or start() has thrown
magnetometerEffect_AfterFailure(s) ==
  IF ~(SensorsWanted(s) /\ s.platform.magnetometer) THEN s
  ELSE IF s.platform.throws # {}
    THEN handleSensorPermissionError(s, "magnetometer")
    ELSE addSupportedSensor(
           addLogEntry([s EXCEPT !.magnetometerRef = "started"],
                       <<"activated", "magnetometer">>, FALSE),
           "magnetometer")

magnetometerEffect(s) ==
  IF ~(SensorsWanted(s) /\ s.platform.magnetometer) THEN s
  ELSE IF "magnetometer" \in s.platform.throws
    THEN handleSensorPermissionError(s, "magnetometer")
    ELSE addSupportedSensor(
           addLogEntry([s EXCEPT !.magnetometerRef = "started"],
                       <<"activated", "magnetometer">>, FALSE),
           "magnetometer")

magnetometerCleanup(s) ==
  [s EXCEPT !.magnetometerRef = Null, !.lastMagnetometerReadingRef = NoReading]

barometerEffect(s) ==
  IF ~(SensorsWanted(s) /\ s.platform.barometer) THEN s
  ELSE IF "barometer" \in s.platform.throws
    THEN [handleSensorPermissionError(s, "barometer") EXCEPT !.lastPressureRef = NoReading]
    ELSE addSupportedSensor(
           addLogEntry([s EXCEPT !.barometerRef = "started",
                                 !.activatePending = @ \cup {"barometer"}],
                       <<"activated", "barometer">>, FALSE),
           "barometer")

barometerCleanup(s) ==
  [s EXCEPT !.barometerRef = Null, !.lastPressureRef = NoReading,
            !.activatePending = @ \ {"barometer"}]

\* What a render shows of the state.
View(s) ==
  [ isServiceActive |-> s.isServiceActive, isArming |-> s.isArming,
    isAlarmPlaying |-> s.isAlarmPlaying, supportedSensors |-> s.supportedSensors,
    alarmVolume |-> s.alarmVolume ]

NeedsRender(s) == s.rendered # View(s)

\* A render is committed and its effects run: the cleanups of the effects whose
\* dependencies changed, in order of declaration, then the effects themselves.
\* The activation log effect depends on isServiceActive and isArming.  The
\* sensor effects depend on them and on triggerAlarm, a new function whenever
\* alarmVolume has changed (through startAlarmSound and playSirenBurst).
Render(s) ==
  LET prev == s.rendered
      s1 == [s EXCEPT !.rendered = View(s)]
      changed == \/ prev.isServiceActive # s1.rendered.isServiceActive
                 \/ prev.isArming # s1.rendered.isArming
      sensorsChanged == changed \/ prev.alarmVolume # s1.rendered.alarmVolume
  IN  IF ~sensorsChanged THEN syncRefs(s1)
      ELSE LET c1 == IF changed THEN activationLogCleanup(s1) ELSE s1
               c2 == accelerometerCleanup(c1)
               c3 == gyroscopeCleanup(c2)
               c4 == proximityCleanup(c3)
               c5 == lightCleanup(c4)
               c6 == magnetometerCleanup(c5)
               c7 == barometerCleanup(c6)
               e1 == IF changed THEN activationLogEffect(syncRefs(c7)) ELSE syncRefs(c7)
               e2 == accelerometerEffect(e1)
               e3 == gyroscopeEffect(e2)
               e4 == proximityEffect(e3)
               e5 == lightEffect(e4)
               e6 == magnetometerEffect(e5)
           IN  barometerEffect(e6)

\* The renders of a user intent: committed, with their effects, before the
\* next event.
SyncRender(s) ==
  LET s1 == IF NeedsRender(s) THEN Render(s) ELSE s
  IN  IF NeedsRender(s1) THEN Render(s1) ELSE s1

----------------------------------------------------------------------------
(* The service worker (src/service-worker.js).  worker.cache is the cache   *)
(* CACHE_NAME as a set of [url, status] entries (the Cache API keys entries *)
(* by GET request); worker.request is the request of the fetch event being  *)
(* handled and worker.phase where its promise chain stands; worker.puts are *)
(* the cache.put calls issued and not yet completed.  History, not read by  *)
(* the worker: fetched, failed and matched say whether the handling of the  *)
(* current event called fetch, saw it reject, and called caches.match;      *)
(* written is every entry a cache.put of the fetch handler has stored.      *)

Urls == { "/", "/icon.svg", "https://cdn.tailwindcss.com", "https://esm.sh/react" }

ASSETS_TO_CACHE == { "/", "/icon.svg", "https://cdn.tailwindcss.com" }

\* request.url.startsWith('https://esm.sh/') || startsWith('https://cdn.tailwindcss.com')
DynamicallyCached(url) == url \in { "https://cdn.tailwindcss.com", "https://esm.sh/react" }

\* The requests of the fetch events: navigations load the page itself.
Requests ==
  { r \in [mode : {"navigate", "other"}, method : {"GET", "POST"}, url : Urls] :
      r.mode = "navigate" => r.url = "/" }

NoResponse == [from |-> "none", status |-> 0]

\* caches.match(request): the entry of a GET request, if any
cacheMatch(cache, request) ==
  IF request.method = "GET" THEN { e \in cache : e.url = request.url } ELSE {}

\* the fetch listener writing every response of the network to the cache
onNetworkResponse_AnyStatus(w, status) ==
  LET request == w.request
      entry == [url |-> request.url, status |-> status, method |-> request.method]
      w1 == [w EXCEPT !.response = [from |-> "network", status |-> status],
                      !.phase = "done"]
  IN  IF request.mode = "navigate" \/ DynamicallyCached(request.url)
        THEN [w1 EXCEPT !.puts = @ \cup {entry}]
        ELSE w1

\* fetch(request).then(...) of either branch: the response is returned, and
\* a cache.put is issued for a GET response with status 200 (of any
\* navigation, and of the urls cached dynamically otherwise).
onNetworkResponse(w, status) ==
  LET request == w.request
      entry == [url |-> request.url, status |-> status, method |-> request.method]
      w1 == [w EXCEPT !.response = [from |-> "network", status |-> status],
                      !.phase = "done"]
  IN  IF /\ status = 200 /\ request.method = "GET"
         /\ (request.mode = "navigate" \/ DynamicallyCached(request.url))
        THEN [w1 EXCEPT !.puts = @ \cup {entry}]
        ELSE w1

\* install: cache.add of every asset, each failure caught on its own; an
\* asset is stored when its fetch answers with an ok status (200 or 203
\* here).
Install ==
  /\ worker.phase = "installing"
  /\ \E urls \in SUBSET ASSETS_TO_CACHE : \E status \in {200, 203} :
       Assign([Cur EXCEPT !.worker.phase = "idle",
                          !.worker.cache = { [url |-> u, status |-> status] : u \in urls }])

\* The fetch listener up to its first asynchronous call: fetch(request) of a
\* navigation, caches.match(request) otherwise.
FetchEvent ==
  /\ worker.phase \in {"idle", "done"}
  /\ \E request \in Requests :
       LET w1 == [worker EXCEPT !.request = request, !.response = NoResponse,
                                !.fetched = FALSE, !.failed = FALSE, !.matched = FALSE]
       IN  Assign([Cur EXCEPT !.worker =
             IF request.mode = "navigate"
               THEN [w1 EXCEPT !.phase = "fetching", !.fetched = TRUE]
               ELSE [w1 EXCEPT !.phase = "matching", !.matched = TRUE]])

\* fetch(request) resolves, with status 200, 203 or 404.
NetworkResponds ==
  /\ worker.phase = "fetching"
  /\ \E status \in {200, 203, 404} :
       Assign([Cur EXCEPT !.worker = onNetworkResponse(worker, status)])

\* fetch(request) rejects: .catch(() => caches.match(request)) of a
\* navigation; the other branch logs and rethrows.
NetworkFails ==
  /\ worker.phase = "fetching"
  /\ Assign([Cur EXCEPT !.worker =
       IF worker.request.mode = "navigate"
         THEN [worker EXCEPT !.failed = TRUE, !.matched = TRUE, !.phase = "matching"]
         ELSE [worker EXCEPT !.failed = TRUE, !.phase = "done",
                             !.response = [from |-> "error", status |-> 0]]])

\* caches.match(request) resolves, with the cache as it is then: the entry
\* found is the response; with none, a navigation has no response and any
\* other request goes to the network.
CacheMatchResolves ==
  /\ worker.phase = "matching"
  /\ LET found == cacheMatch(worker.cache, worker.request)
     IN  Assign([Cur EXCEPT !.worker =
           IF found # {}
             THEN [worker EXCEPT !.phase = "done",
                     !.response = [from |-> "cache",
                                   status |-> (CHOOSE e \in found : TRUE).status]]
           ELSE IF worker.request.mode = "navigate"
             THEN [worker EXCEPT !.phase = "done",
                                 !.response = [from |-> "error", status |-> 0]]
           ELSE [worker EXCEPT !.phase = "fetching", !.fetched = TRUE]])

\* caches.open(CACHE_NAME).then(cache => cache.put(request, responseToCache))
\* completes: the entry of the url is replaced.
CachePutCompletes ==
  \E entry \in worker.puts :
    Assign([Cur EXCEPT
      !.worker.puts = @ \ {entry},
      !.worker.cache = { e \in @ : e.url # entry.url }
                         \cup { [url |-> entry.url, status |-> entry.status] },
      !.worker.written = @ \cup {entry}])

WorkerNext ==
  \/ Install \/ FetchEvent \/ NetworkResponds \/ NetworkFails
  \/ CacheMatchResolves \/ CachePutCompletes

----------------------------------------------------------------------------
(* The platform: which sensor sources, geolocation and audio the browser has *)

Platform(motion, gyroscope, proximity, light, magnetometer, barometer, geo, audio) ==
  [ motion |-> motion, gyroscope |-> gyroscope, proximity |-> proximity,
    light |-> light, magnetometer |-> magnetometer, barometer |-> barometer,
    geo |-> geo, audio |-> audio, throws |-> {}, errors |-> {} ]

\* The platform pf on which the constructor or start() of the sensors in throws
\* throws, and the start of the sensors in errors fails with an error event.
Faulty(pf, throws, errors) == [pf EXCEPT !.throws = throws, !.errors = errors]

AllPlatforms ==
  { Platform(m, g, p, l, mg, b, geo, a) :
      m \in {"none", "plain", "ios"}, g \in BOOLEAN,
      p \in {"none", "sensor", "legacy"}, l \in BOOLEAN, mg \in BOOLEAN,
      b \in BOOLEAN, geo \in BOOLEAN, a \in {"running", "suspended", "unsupported"} }

SensorCount(pf) ==
  (IF pf.motion # "none" THEN 1 ELSE 0) + (IF pf.gyroscope THEN 1 ELSE 0)
  + (IF pf.proximity # "none" THEN 1 ELSE 0) + (IF pf.light THEN 1 ELSE 0)
  + (IF pf.magnetometer THEN 1 ELSE 0) + (IF pf.barometer THEN 1 ELSE 0)

\* The platforms explored: each sensor source alone, with geolocation and a
\* running audio context, and a few that differ in audio, geolocation and
\* the number of sensors.
Platforms ==
  { pf \in AllPlatforms : SensorCount(pf) = 1 /\ pf.audio = "running" /\ pf.geo }
  \cup { Platform("plain", FALSE, "none", FALSE, FALSE, FALSE, TRUE, "suspended"),
         Platform("plain", FALSE, "none", FALSE, FALSE, FALSE, FALSE, "running"),
         Platform("plain", TRUE, "none", FALSE, FALSE, FALSE, TRUE, "running") }

----------------------------------------------------------------------------
(* Initial state: the component is mounted, the service is inactive *)

\* A log of n entries as n clicks on the main button in n different
\* milliseconds leave it, newest first.
InitialLog(n) ==
  IF n = 0 THEN << >>
  ELSE [ i \in 1..n |->
           LogEntry(n - i, IF i % 2 = 1 THEN <<"deactivated">> ELSE <<"arming">>, FALSE) ]

\* The mounted component on one of the platforms, with one of the volumes, a
\* log of one of the lengths and the clock at one of the times (past every id
\* in the log).
InitWith(platforms, volumes, lengths, clocks) ==
  /\ isServiceActive = FALSE /\ isArming = FALSE /\ isAlarmPlaying = FALSE
  /\ errorMessage = << >> /\ supportedSensors = << >>
  /\ alarmVolume \in volumes
  /\ logs \in { InitialLog(n) : n \in lengths }
  /\ now \in clocks
  /\ gainValue = 0 /\ intervalVolume = 0
  /\ tonesInFlight = 0 /\ endedPending = FALSE
  /\ gyroscopeReadings = << >>
  /\ errorText = << >>
  /\ alarmStopped = FALSE
  /\ worker = [ cache |-> {}, phase |-> "installing", request |-> Null,
                response |-> NoResponse, puts |-> {}, written |-> {},
                fetched |-> FALSE, failed |-> FALSE, matched |-> FALSE ]
  /\ rendered = [ isServiceActive |-> FALSE, isArming |-> FALSE,
                  isAlarmPlaying |-> FALSE, supportedSensors |-> << >>,
                  alarmVolume |-> alarmVolume ]
  /\ isServiceActiveRef = FALSE /\ isArmingRef = FALSE /\ isAlarmPlayingRef = FALSE
  /\ supportedSensorsRef = << >>
  /\ lastAccelRef = NoReading /\ lastIlluminanceRef = NoReading
  /\ lastMagnetometerReadingRef = NoReading /\ lastPressureRef = NoReading
  /\ armingTimeoutRef = Null /\ alarmIntervalRef = Null
  /\ oscillatorRef = Null /\ gainNodeRef = Null /\ audioContextRef = Null
  /\ gyroscopeRef = Null /\ proximitySensorRef = Null /\ lightSensorRef = Null
  /\ magnetometerRef = Null /\ barometerRef = Null
  /\ prevIsArmingRef = FALSE /\ hasLoggedActivationRef = FALSE
  /\ orphanArmingTimers = 0 /\ activationLogTimer = FALSE
  /\ motionListener = FALSE /\ staleMotionListeners = 0
  /\ motionPermission = "none" /\ stalePermissions = 0
  /\ proximityListener = FALSE /\ activatePending = {} /\ geoPending = << >>
  /\ platform \in platforms
  /\ calls = {} /\ unread = {}

\* The state after mounting: empty log, volume 0.9.
InitOn(platforms) == InitWith(platforms, {INITIAL_VOLUME}, {0}, {0})

Init == InitOn(Platforms)

----------------------------------------------------------------------------
(* User intents.  A click on a button also reaches the root element's      *)
(* onClick, which calls getAudioContext.                                   *)

ToggleService == Set(SyncRender(getAudioContext(toggleService(Cur))))

\* The main button forwards a click to stopAlarm when it was rendered with
\* isAlarmPlaying, and to toggleService otherwise.
StopAlarm ==
  /\ rendered.isAlarmPlaying
  /\ Set(SyncRender(getAudioContext(stopAlarm(Cur))))

\* What a click that calls toggleService, or stopAlarm, makes of the state s.
ClickToggle(s) == SyncRender(getAudioContext(toggleService(s)))
ClickStop(s) == SyncRender(getAudioContext(stopAlarm(s)))

\* The same intents, with alarmStopped recording that stopAlarm has run.
Recorded(s) == [s EXCEPT !.alarmStopped = @ \/ "stopAlarm" \in s.calls]

ToggleServiceRecorded == Set(Recorded(ClickToggle(Cur)))

StopAlarmRecorded ==
  /\ rendered.isAlarmPlaying
  /\ Set(Recorded(ClickStop(Cur)))

\* A click on the main button of Controls as it was last rendered:
\* onClick={isAlarmPlaying ? onStopAlarm : onToggleService}, and
\* disabled={isArming && !isAlarmPlaying}, a disabled button forwarding nothing.
MainButtonClick ==
  \/ /\ rendered.isAlarmPlaying
     /\ Set(SyncRender(getAudioContext(stopAlarm(Cur))))
  \/ /\ ~rendered.isAlarmPlaying /\ ~rendered.isArming
     /\ Set(SyncRender(getAudioContext(toggleService(Cur))))

ClearLogs == Set(getAudioContext(clearLogs(Cur)))

\* onVolumeUp / onVolumeDown
AdjustVolume ==
  \E delta \in {VOLUME_STEP, -VOLUME_STEP} :
    Set(SyncRender(getAudioContext(adjustVolume(Cur, delta))))

\* onVolumeUp / onVolumeDown, within MaxVolumeSteps steps of the initial volume
AdjustVolumeNearInitial ==
  /\ AdjustVolume
  /\ Abs(alarmVolume' - INITIAL_VOLUME) <= MaxVolumeSteps * VOLUME_STEP

----------------------------------------------------------------------------
(* Tasks of the event loop *)

RenderTask == NeedsRender(Cur) /\ Set(Render(Cur))

ArmingTimerFires ==
  \E timer \in {"ref", "orphan"} :
    /\ timer = "ref" => armingTimeoutRef = "pending"
    /\ timer = "orphan" => orphanArmingTimers > 0
    /\ Set(armingTimeout(
         IF timer = "ref" THEN [Cur EXCEPT !.armingTimeoutRef = "done"]
         ELSE [Cur EXCEPT !.orphanArmingTimers = @ - 1]))

ActivationLogTimerFires ==
  /\ activationLogTimer
  /\ Set(activationLogTimeout([Cur EXCEPT !.activationLogTimer = FALSE]))

PermissionResolves ==
  /\ motionPermission = "pending"
  /\ \E permissionState \in {"granted", "denied"} :
       Set(permissionResolved(Cur, permissionState))

StalePermissionResolves ==
  /\ stalePermissions > 0
  /\ \E permissionState \in {"granted", "denied"} :
       Set(stalePermissionResolved(Cur, permissionState))

\* The sensor of the kind, once started, delivers its activate and reading
\* events; one whose start fails delivers its error event instead.
Delivers(kind) == kind \notin platform.errors

\* The error event of a started sensor whose start fails (permission denied,
\* no connection to the hardware): sensor.onerror.
SensorError ==
  \E kind \in platform.errors :
    /\ SensorRef(Cur, kind) = "started"
    /\ Set(sensorOnError(Cur, kind))

\* A devicemotion event; every registered handler tests the same refs and the
\* second one finds the baseline equal to the reading.
MotionReading ==
  /\ motionListener \/ staleMotionListeners > 0
  /\ \E r \in AccelReadings \cup {NoReading} : Set(motionHandlerInternal(Delivering("accelerometer"), r))

GyroscopeReading ==
  /\ gyroscopeRef = "started" /\ Delivers("gyroscope")
  /\ \E r \in GyroReadings : Set(gyroscopeOnReading(Delivering("gyroscope"), r))

\* The same event, with the reading and the one before it recorded in
\* gyroscopeReadings and the callback recorded in calls.
GyroscopeReadingRecorded ==
  /\ gyroscopeRef = "started" /\ Delivers("gyroscope")
  /\ \E r \in RotationReadings :
       LET s == gyroscopeOnReading(Delivering("gyroscope"), r)
           previous == IF gyroscopeReadings = << >> THEN << >>
                       ELSE << gyroscopeReadings[Len(gyroscopeReadings)] >>
       IN  Set([s EXCEPT !.calls = @ \cup {"onreading"},
                         !.gyroscopeReadings = previous \o <<r>>])

ProximityReading ==
  /\ proximitySensorRef = "started" /\ Delivers("proximity")
  /\ \E near \in ProximityReadings : Set(proximityOnReading(Delivering("proximity"), near))

ProximityEvent ==
  /\ proximityListener
  /\ \E ev \in ProximityEvents : Set(proximityEventHandler(Delivering("proximity"), ev))

LightActivate ==
  /\ "light" \in activatePending /\ Delivers("light")
  /\ \E v \in LightReadings \cup {NoReading} :
       Set(lightOnActivate([Cur EXCEPT !.activatePending = @ \ {"light"}], v))

LightReading ==
  /\ lightSensorRef = "started" /\ Delivers("light") /\ "light" \notin activatePending
  /\ \E v \in LightReadings \cup {NoReading} : Set(lightOnReading(Delivering("light"), v))

MagnetometerReading ==
  /\ magnetometerRef = "started" /\ Delivers("magnetometer")
  /\ \E r \in MagnetometerReadings \cup {NoReading} :
       Set(magnetometerOnReading(Delivering("magnetometer"), r))

BarometerActivate ==
  /\ "barometer" \in activatePending /\ Delivers("barometer")
  /\ \E v \in PressureReadings \cup {NoReading} :
       Set(barometerOnActivate([Cur EXCEPT !.activatePending = @ \ {"barometer"}], v))

BarometerReading ==
  /\ barometerRef = "started" /\ Delivers("barometer") /\ "barometer" \notin activatePending
  /\ \E v \in PressureReadings \cup {NoReading} : Set(barometerOnReading(Delivering("barometer"), v))

\* getCurrentPosition's success callback
GeolocationSuccess ==
  /\ geoPending # << >>
  /\ Set(addLogEntry([Cur EXCEPT !.geoPending = Tail(@)],
                     <<"alarm", Head(geoPending)>>, TRUE))

\* getCurrentPosition's error callback without its addLogEntry
GeolocationError_NoEntry ==
  /\ geoPending # << >>
  /\ Set(appendErrorMessage([Cur EXCEPT !.geoPending = Tail(@)], Message("geoError", 1)))

\* getCurrentPosition's error callback
GeolocationError ==
  /\ geoPending # << >>
  /\ Set(appendErrorMessage(
           addLogEntry([Cur EXCEPT !.geoPending = Tail(@)],
                       <<"alarm", Head(geoPending), "unavailable">>, FALSE),
           Message("geoError", 1)))

\* resume() of a suspended audio context completes
AudioContextResumes ==
  /\ audioContextRef = "suspended"
  /\ Set([Cur EXCEPT !.audioContextRef = "running"])

\* The repeat timer of the siren
AlarmIntervalFires ==
  /\ alarmIntervalRef = "active"
  /\ Set(playSirenBurst(Cur, intervalVolume))

\* The tone that oscillatorRef holds reaches its end (oscillator.stop(now +
\* 0.8)) and its onended handler runs.
OscillatorEnded ==
  /\ oscillatorRef # Null
  /\ Set(oscillatorOnEnded([Cur EXCEPT !.tonesInFlight = @ - 1], TRUE))

\* onended of a tone that was stopped and is no longer held by oscillatorRef
StoppedOscillatorEnded ==
  /\ endedPending
  /\ Set(oscillatorOnEnded([Cur EXCEPT !.endedPending = FALSE], FALSE))

Next ==
  \/ ToggleService \/ StopAlarm \/ ClearLogs
  \/ RenderTask \/ ArmingTimerFires \/ ActivationLogTimerFires
  \/ PermissionResolves \/ StalePermissionResolves
  \/ MotionReading \/ GyroscopeReading \/ ProximityReading \/ ProximityEvent
  \/ LightActivate \/ LightReading \/ MagnetometerReading
  \/ BarometerActivate \/ BarometerReading
  \/ GeolocationSuccess \/ GeolocationError
  \/ AudioContextResumes \/ AlarmIntervalFires \/ OscillatorEnded

Spec == Init /\ [][Next]_vars

\* The platforms with one sensor source, a running audio context and no
\* permission request for devicemotion events, and the events that can happen
\* on them.
StandardPlatforms ==
  { pf \in Platforms : SensorCount(pf) = 1 /\ pf.motion # "ios" /\ pf.audio = "running" }

StandardNext ==
  \/ ToggleService \/ StopAlarm \/ ClearLogs
  \/ RenderTask \/ ArmingTimerFires \/ ActivationLogTimerFires
  \/ MotionReading \/ GyroscopeReading \/ ProximityReading \/ ProximityEvent
  \/ LightActivate \/ LightReading \/ MagnetometerReading
  \/ BarometerActivate \/ BarometerReading
  \/ GeolocationSuccess \/ GeolocationError
  \/ AlarmIntervalFires \/ OscillatorEnded

StandardSpec == InitOn(StandardPlatforms) /\ [][StandardNext]_vars

\* The step of RenderTask, told by what it commits: the state as it was.
RenderCommitted == NeedsRender(Cur) /\ rendered' = View(Cur)

\* A scheduled render is eventually committed: weak fairness of RenderTask,
\* with NeedsRender as its enabling condition.
RenderFairness ==
  []<>(~NeedsRender(Cur)) \/ []<><<RenderCommitted>>_vars

\* The platforms without any sensor source.  Timers that are due fire and a
\* scheduled render is committed: weak fairness of the three tasks.
SensorlessPlatforms == { pf \in AllPlatforms : SensorCount(pf) = 0 }

SensorlessNext ==
  \/ ToggleService \/ ClearLogs
  \/ RenderTask \/ ArmingTimerFires \/ ActivationLogTimerFires
  \/ AudioContextResumes

SensorlessFairSpec ==
  /\ InitOn(SensorlessPlatforms) /\ [][SensorlessNext]_vars
  /\ WF_vars(ArmingTimerFires) /\ WF_vars(ActivationLogTimerFires)
  /\ RenderFairness

\* A platform whose only sensor is the gyroscope, with the volume buttons.
GyroscopePlatforms ==
  { Platform("none", TRUE, "none", FALSE, FALSE, FALSE, TRUE, "running") }

GyroscopeNext ==
  \/ ToggleService \/ StopAlarm \/ ClearLogs \/ AdjustVolumeNearInitial
  \/ RenderTask \/ ArmingTimerFires \/ ActivationLogTimerFires
  \/ GyroscopeReading
  \/ GeolocationSuccess \/ GeolocationError
  \/ AlarmIntervalFires \/ OscillatorEnded \/ StoppedOscillatorEnded

GyroscopeSpec == InitOn(GyroscopePlatforms) /\ [][GyroscopeNext]_vars

\* The gyroscope alone, with its readings recorded.
RotationNext ==
  \/ ToggleService \/ StopAlarm \/ ClearLogs
  \/ RenderTask \/ ArmingTimerFires \/ ActivationLogTimerFires
  \/ GyroscopeReadingRecorded
  \/ GeolocationSuccess \/ GeolocationError
  \/ AlarmIntervalFires \/ OscillatorEnded

RotationSpec == InitOn(GyroscopePlatforms) /\ [][RotationNext]_vars

\* The platforms whose only sensor is the accelerometer (devicemotion events
\* without a permission request) or the barometer, with the volume buttons: a
\* change of volume re-runs the sensor effects while the service is Active.
BaselinePlatforms ==
  { Platform("plain", FALSE, "none", FALSE, FALSE, FALSE, TRUE, "running"),
    Platform("none", FALSE, "none", FALSE, FALSE, TRUE, TRUE, "running") }

BaselineNext ==
  \/ ToggleService \/ StopAlarm \/ ClearLogs \/ AdjustVolumeNearInitial
  \/ RenderTask \/ ArmingTimerFires \/ ActivationLogTimerFires
  \/ MotionReading \/ BarometerActivate \/ BarometerReading
  \/ GeolocationSuccess \/ GeolocationError
  \/ AlarmIntervalFires \/ OscillatorEnded

BaselineSpec == InitOn(BaselinePlatforms) /\ [][BaselineNext]_vars

\* The advisory text on its own.  Texts are spelled with the letters a, b, c
\* standing for words.  The status texts are those setErrorMessage is called
\* with; the appended messages are a fixed text or a prefix and ": " followed
\* by the message of the browser's error object, which may be any string.
ErrorTexts ==
  { <<"a">>, <<"a", ":", "b">>, <<"a", ":", "b", "b">>, <<"b">>,
    <<"b", " ", "(", "a">>, <<"b", ":", "c", "\n", "c">> }

\* longest advisory text
MaxText == 10

SetErrorText ==
  \E text \in { << >>, <<"c">>, <<"c", " ", "(", "a">> } :
    Assign([Cur EXCEPT !.errorText = text])

AppendErrorText ==
  \E newMessage \in ErrorTexts :
    LET text == appendErrorMessageText(errorText, newMessage)
    IN  Len(text) <= MaxText /\ Assign([Cur EXCEPT !.errorText = text])

AdvisoryNext == SetErrorText \/ AppendErrorText

AdvisorySpec == Init /\ [][AdvisoryNext]_vars

\* The platforms of StandardSpec with toggleService and stopAlarm reached
\* through the main button of Controls only.
ControlsNext ==
  \/ MainButtonClick \/ ClearLogs
  \/ RenderTask \/ ArmingTimerFires \/ ActivationLogTimerFires
  \/ MotionReading \/ GyroscopeReading \/ ProximityReading \/ ProximityEvent
  \/ LightActivate \/ LightReading \/ MagnetometerReading
  \/ BarometerActivate \/ BarometerReading
  \/ GeolocationSuccess \/ GeolocationError
  \/ AlarmIntervalFires \/ OscillatorEnded

ControlsSpec == InitOn(StandardPlatforms) /\ [][ControlsNext]_vars

\* The gyroscope alone, with the stopped alarms recorded.
RearmNext ==
  \/ ToggleServiceRecorded \/ StopAlarmRecorded \/ ClearLogs
  \/ RenderTask \/ ArmingTimerFires \/ ActivationLogTimerFires
  \/ GyroscopeReading
  \/ GeolocationSuccess \/ GeolocationError
  \/ AlarmIntervalFires \/ OscillatorEnded

RearmSpec == InitOn(GyroscopePlatforms) /\ [][RearmNext]_vars

\* The service worker on its own.
WorkerSpec == InitOn(SensorlessPlatforms) /\ [][WorkerNext]_vars

\* Sensors that fail to start.  The browser has the five Generic Sensor
\* classes and no DeviceMotionEvent; the constructor or start() of at least
\* MinThrowing of the sensors throws, and the start of some of the others
\* fails with an error event.  At most MaxLog - 1 sensors start, so that the
\* log holds the arming entry and their activation entries.
GenericKinds == { "gyroscope", "proximity", "light", "magnetometer", "barometer" }
MinThrowing == Cardinality(GenericKinds) - (MaxLog - 1)

FaultPlatforms ==
  LET faulty == { Faulty(Platform("none", TRUE, "sensor", TRUE, TRUE, TRUE, FALSE,
                                  "unsupported"), throws, errors) :
                    throws \in SUBSET GenericKinds, errors \in SUBSET GenericKinds }
  IN  { pf \in faulty : /\ Cardinality(pf.throws) >= MinThrowing
                        /\ pf.throws \cap pf.errors = {} }

FaultNext ==
  \/ ToggleService \/ RenderTask \/ ArmingTimerFires \/ ActivationLogTimerFires
  \/ SensorError \/ GyroscopeReading \/ MagnetometerReading \/ StopAlarm

\* The arming timer (setTimeout) fires unless it is cleared.
FaultSpec == InitOn(FaultPlatforms) /\ [][FaultNext]_vars /\ WF_vars(ArmingTimerFires)

\* The volume buttons on their own, from every volume in steps of 0.05
\* (among them 0.05 and 0.95, from which a step overshoots the range).
VolumeNext == AdjustVolume

VolumeSpec ==
  /\ InitWith(SensorlessPlatforms,
              { v \in 0..MAX_VOLUME : v % (VOLUME_STEP \div 2) = 0 }, {0}, {0})
  /\ [][VolumeNext]_vars

\* The incident log on its own: addLogEntry and clearLogs called in any
\* order on logs of 0, 1, 49 and 50 entries, with the clock (Date.now())
\* advancing between some calls and not between others.
LogClockStart == LOG_KEEP + 1
LogMessages == { <<"arming">>, <<"alarm", "accelerometer">> }

\* The entries of the log written in the current millisecond.
WrittenNow == SelectSeq(logs, LAMBDA entry : entry.id = now)

\* Some callback calls addLogEntry (with coordinates: an incident located).
CallAddLogEntry ==
  /\ Len(WrittenNow) < MaxSameMs
  /\ \E message \in LogMessages :
       Assign(Called(addLogEntry(Cur, message, message[1] = "alarm"), "addLogEntry"))

\* The log panel's button calls clearLogs.
CallClearLogs ==
  /\ Len(WrittenNow) < MaxSameMs
  /\ Assign(Called(clearLogs(Cur), "clearLogs"))

\* A millisecond passes.
ClockTick ==
  /\ now < LogClockStart + MaxTicks
  /\ Assign([Cur EXCEPT !.now = @ + 1])

LogInit ==
  InitWith({ Platform("none", FALSE, "none", FALSE, FALSE, FALSE, FALSE, "running") },
           {INITIAL_VOLUME}, { 0, 1, LOG_KEEP, LOG_KEEP + 1 }, {LogClockStart})

LogNext == CallAddLogEntry \/ CallClearLogs \/ ClockTick

LogSpec == LogInit /\ [][LogNext]_vars

----------------------------------------------------------------------------
(* The service state that the flags encode *)

getCurrentStatus ==
  IF isAlarmPlaying THEN "Alarming"
  ELSE IF isArming THEN "Arming"
  ELSE IF isServiceActive THEN "Active"
  ELSE "Inactive"

\* Some sensor subscription is live: a devicemotion or deviceproximity
\* listener is registered, or a Generic Sensor object is started.
SubscriptionLive ==
  \/ motionListener \/ staleMotionListeners > 0 \/ proximityListener
  \/ gyroscopeRef = "started" \/ proximitySensorRef = "started"
  \/ lightSensorRef = "started" \/ magnetometerRef = "started"
  \/ barometerRef = "started"

Baselines ==
  << lastAccelRef, lastIlluminanceRef, lastMagnetometerReadingRef, lastPressureRef >>

----------------------------------------------------------------------------
(* Claims *)

\* C1: while an alarm is playing, a step in which a sensor callback calls
\* triggerAlarm does not call startAlarmSound, requests no geolocation and
\* appends no log entry.
C1_AtMostOneAlarm ==
  [][ (isAlarmPlaying /\ "triggerAlarm" \in calls')
        => /\ "startAlarmSound" \notin calls'
           /\ geoPending' = geoPending
           /\ logs' = logs ]_vars

\* The changes of service state that the arming state machine allows.
AllowedChange(from, to) ==
  \/ from = "Inactive" /\ to = "Arming"
  \/ from = "Arming" /\ to \in {"Active", "Inactive"}
  \/ from = "Active" /\ to \in {"Inactive", "Alarming"}
  \/ from = "Alarming" /\ to = "Inactive"

\* C2: every change of the service state is Inactive->Arming (by
\* toggleService), Arming->Active (by the arming timer firing),
\* Arming->Inactive, Active->Inactive, Alarming->Inactive (by a user intent)
\* or Active->Alarming (by a detection calling triggerAlarm).
C2_Transitions ==
  [][ getCurrentStatus' # getCurrentStatus
        => /\ AllowedChange(getCurrentStatus, getCurrentStatus')
           /\ getCurrentStatus' = "Arming" => "toggleService" \in calls'
           /\ getCurrentStatus' = "Active"
                => armingTimeoutRef = "pending" /\ armingTimeoutRef' = "done"
                   /\ calls' = {}
           /\ getCurrentStatus' = "Alarming" => "triggerAlarm" \in calls'
           /\ getCurrentStatus' = "Inactive"
                => calls' \cap {"toggleService", "stopAlarm"} # {} ]_vars


\* A complete cycle: an alarm was raised (its geolocation request is still in
\* flight) and stopAlarm has just brought the service back to Inactive.
C2_Witness ==
  /\ getCurrentStatus = "Inactive" /\ "stopAlarm" \in calls
  /\ geoPending # << >> /\ armingTimeoutRef = "done"

\* The number of activation entries (per-sensor or consolidated) in a log.
RECURSIVE ActivationCount(_)
ActivationCount(l) ==
  IF l = << >> THEN 0
  ELSE (IF Head(l).message[1] \in {"activated", "active"} THEN 1 ELSE 0)
       + ActivationCount(Tail(l))

\* C3: toggleService called while the state is Arming cancels the arming
\* timer and leaves the state Inactive; from then until the next toggle on
\* (armingTimeoutRef = "cleared" throughout) the state is Inactive, no sensor
\* subscription is live and no activation log entry is appended.
C3_CancelledArming ==
  [][ /\ (getCurrentStatus = "Arming" /\ "toggleService" \in calls')
           => getCurrentStatus' = "Inactive" /\ armingTimeoutRef' = "cleared"
      /\ armingTimeoutRef' = "cleared"
           => /\ getCurrentStatus' = "Inactive"
              /\ ~SubscriptionLive'
              /\ ActivationCount(logs') <= ActivationCount(logs) ]_vars

\* C4: the step that delivers the first reading of a sensor kind since its
\* subscription started does not call triggerAlarm.
C4_FirstReading ==
  [][ \A kind \in unread : kind \notin unread' => "triggerAlarm" \notin calls' ]_vars

\* C5: while the state is not Active no step calls triggerAlarm (only reading
\* callbacks do) and no step stores a reading in a baseline.
C5_IgnoredWhenNotActive ==
  [][ getCurrentStatus # "Active"
        => /\ "triggerAlarm" \notin calls'
           /\ \A i \in 1..4 : Baselines'[i] \in {Baselines[i], NoReading} ]_vars

\* C6: a devicemotion permission request that outlived its effect and
\* resolves while the state is Inactive registers no devicemotion listener,
\* adds nothing to supportedSensors and appends no activation log entry.
C6_LateGrant ==
  [][ (getCurrentStatus = "Inactive" /\ stalePermissions' < stalePermissions)
        => /\ ~motionListener' /\ staleMotionListeners' = staleMotionListeners
           /\ supportedSensors' = supportedSensors
           /\ ActivationCount(logs') <= ActivationCount(logs) ]_vars

\* C7: no sensor subscription is live while the state is Arming or Inactive.
C7_NoSubscriptionUnlessActive ==
  getCurrentStatus \in {"Arming", "Inactive"} => ~SubscriptionLive


\* The baseline was replaced by a later reading in the step.
Compared(last, r) == last # NoReading /\ r # NoReading /\ r # last

\* C8: in Active, a reading compared with a present baseline calls
\* triggerAlarm exactly if its delta is strictly greater than the threshold:
\* the Euclidean norm of the per-axis differences against 0.6 m/s^2 (squared,
\* in units of 0.1 m/s^2: 36), the absolute difference against 50 lux and
\* 20 Pa, some axis' absolute difference against 20 uT.
C8_OpenThresholds ==
  [][ getCurrentStatus = "Active"
        => /\ Compared(lastAccelRef, lastAccelRef')
                => ("triggerAlarm" \in calls'
                      <=> (lastAccelRef'[1] - lastAccelRef[1]) * (lastAccelRef'[1] - lastAccelRef[1])
                          + (lastAccelRef'[2] - lastAccelRef[2]) * (lastAccelRef'[2] - lastAccelRef[2])
                          + (lastAccelRef'[3] - lastAccelRef[3]) * (lastAccelRef'[3] - lastAccelRef[3])
                          > 36)
           /\ Compared(lastIlluminanceRef, lastIlluminanceRef')
                => ("triggerAlarm" \in calls'
                      <=> Abs(lastIlluminanceRef'[1] - lastIlluminanceRef[1]) > 50)
           /\ Compared(lastMagnetometerReadingRef, lastMagnetometerReadingRef')
                => ("triggerAlarm" \in calls'
                      <=> \E axis \in 1..3 :
                            Abs(lastMagnetometerReadingRef'[axis]
                                  - lastMagnetometerReadingRef[axis]) > 20)
           /\ Compared(lastPressureRef, lastPressureRef')
                => ("triggerAlarm" \in calls'
                      <=> Abs(lastPressureRef'[1] - lastPressureRef[1]) > 20) ]_vars

\* An accelerometer reading has just raised the alarm although no axis moved
\* by more than 0.6 m/s^2: from <<0, 0, 104>> or <<0, 0, 110>> to <<4, 4, 100>>.
C8_Witness ==
  /\ getCurrentStatus = "Alarming" /\ calls = {"triggerAlarm", "startAlarmSound"}
  /\ lastAccelRef = <<4, 4, 100>>

\* C9: toggleService called in a state other than Inactive leaves the state
\* Inactive, with no arming timer pending and the siren stopped.
C9_ToggleDeactivates ==
  [][ (getCurrentStatus # "Inactive" /\ "toggleService" \in calls')
        => /\ getCurrentStatus' = "Inactive"
           /\ armingTimeoutRef' # "pending"
           /\ alarmIntervalRef' # "active" /\ oscillatorRef' = Null ]_vars

\* C10: stopAlarm called by the main button while the state is Alarming
\* leaves the state Inactive, the siren stopped and the baselines empty, and
\* appends a 'deactivated' entry to the log.
C10_StopAlarm ==
  [][ (getCurrentStatus = "Alarming" /\ "stopAlarm" \in calls'
         /\ "toggleService" \notin calls')
        => /\ getCurrentStatus' = "Inactive"
           /\ alarmIntervalRef' # "active" /\ oscillatorRef' = Null
           /\ \A i \in 1..4 : Baselines'[i] = NoReading
           /\ Len(logs') = Len(logs) + 1
           /\ Head(logs').message = <<"deactivated">> ]_vars


\* C11: a step that ends the state Alarming calls stopAlarm or toggleService;
\* no timer, reading, geolocation callback, volume change or log clear does.
C11_AlarmUntilUserStops ==
  [][ (getCurrentStatus = "Alarming" /\ getCurrentStatus' # "Alarming")
        => calls' \cap {"stopAlarm", "toggleService"} # {} ]_vars

\* Still Alarming after the volume was changed, the geolocation callback has
\* appended its entry and the tone of the last burst has ended.
C11_Witness ==
  /\ getCurrentStatus = "Alarming" /\ rendered.isAlarmPlaying
  /\ alarmVolume # INITIAL_VOLUME /\ geoPending = << >>
  /\ logs # << >> /\ Head(logs).message[1] = "alarm"
  /\ oscillatorRef = Null /\ alarmIntervalRef = "active"


\* The number of consolidated 'service active' entries in a log.
RECURSIVE ConsolidatedCount(_)
ConsolidatedCount(l) ==
  IF l = << >> THEN 0
  ELSE (IF Head(l).message[1] = "active" THEN 1 ELSE 0) + ConsolidatedCount(Tail(l))

\* C12: toggleService in Inactive leaves the state Arming and appends the
\* 'arming' entry; a consolidated 'active' entry is appended only in Active,
\* one at a time and at most once per activation (hasLoggedActivationRef is
\* raised by the append and lowered only in Inactive); and an arming with
\* room in the log for that entry leads to Active with the entry appended,
\* unless the service is deactivated.
C12_ArmingLeadsToActive ==
  /\ [][ (getCurrentStatus = "Inactive" /\ "toggleService" \in calls')
           => /\ getCurrentStatus' = "Arming"
              /\ Len(logs') = Len(logs) + 1
              /\ Head(logs').message = <<"arming">> ]_vars
  /\ [][ /\ ConsolidatedCount(logs') > ConsolidatedCount(logs)
              => /\ getCurrentStatus = "Active"
                 /\ ConsolidatedCount(logs') = ConsolidatedCount(logs) + 1
                 /\ ~hasLoggedActivationRef /\ hasLoggedActivationRef'
         /\ (hasLoggedActivationRef /\ ~hasLoggedActivationRef')
              => getCurrentStatus' = "Inactive" ]_vars
  /\ (getCurrentStatus = "Arming" /\ Len(logs) < MaxLog)
       ~> \/ getCurrentStatus = "Inactive"
          \/ getCurrentStatus = "Active" /\ hasLoggedActivationRef

\* Active, the consolidated entry appended right after the arming entry.
C12_Witness ==
  /\ getCurrentStatus = "Active" /\ hasLoggedActivationRef
  /\ Len(logs) >= 2 /\ logs[1].message[1] = "active" /\ logs[2].message = <<"arming">>

\* C13: in Active, a reading that replaces the accelerometer baseline b by r
\* with Euclidean distance |r - b| > 0.6 m/s^2 (squared, in 0.1 m/s^2: 36; for
\* example b = (0,0,9.8), r = (0,0,11.0)) makes the state Alarming, calls
\* startAlarmSound, and either appends the incident entry of the
\* accelerometer at once (no geolocation) or requests the position, whose
\* callback (success or error) appends the incident entry of the source that
\* requested it.
C13_MotionTriggers ==
  /\ [][ ( /\ getCurrentStatus = "Active"
           /\ Compared(lastAccelRef, lastAccelRef')
           /\ (lastAccelRef'[1] - lastAccelRef[1]) * (lastAccelRef'[1] - lastAccelRef[1])
              + (lastAccelRef'[2] - lastAccelRef[2]) * (lastAccelRef'[2] - lastAccelRef[2])
              + (lastAccelRef'[3] - lastAccelRef[3]) * (lastAccelRef'[3] - lastAccelRef[3])
              > 36 )
           => /\ getCurrentStatus' = "Alarming"
              /\ "startAlarmSound" \in calls'
              /\ IF platform.geo
                   THEN geoPending' = Append(geoPending, "accelerometer")
                   ELSE /\ Len(logs') = Len(logs) + 1
                        /\ Head(logs').message[1] = "alarm"
                        /\ Head(logs').message[2] = "accelerometer" ]_vars
  /\ [][ geoPending' # geoPending
           => \/ /\ geoPending # << >>
                 /\ geoPending' = Tail(geoPending)
                 /\ Len(logs') = Len(logs) + 1
                 /\ Head(logs').message[1] = "alarm"
                 /\ Head(logs').message[2] = Head(geoPending)
              \/ /\ Len(geoPending') = Len(geoPending) + 1
                 /\ SubSeq(geoPending', 1, Len(geoPending)) = geoPending ]_vars

\* The reading (0,0,11.0) against the baseline (0,0,9.8) or (0.4,0.4,10.0)
\* has just raised the alarm and requested the position.
C13_Witness ==
  /\ getCurrentStatus = "Alarming"
  /\ lastAccelRef = <<0, 0, 110>>
  /\ {"triggerAlarm", "startAlarmSound"} \subseteq calls
  /\ geoPending = <<"accelerometer">>
  /\ alarmIntervalRef = "active"

\* The number of incident entries in a log.
RECURSIVE IncidentCount(_)
IncidentCount(l) ==
  IF l = << >> THEN 0
  ELSE (IF Head(l).message[1] = "alarm" THEN 1 ELSE 0) + IncidentCount(Tail(l))

\* C14: every triggerAlarm call that starts an alarm (it finds
\* isAlarmPlayingRef false) appends exactly one incident entry: at once,
\* annotated "unsupported" and without coordinates, where there is no
\* geolocation; otherwise it issues one position request, and the request's
\* completion appends exactly one entry, with coordinates on success and
\* annotated "unavailable" on error.  No other step appends an incident entry
\* or removes a request.
C14_OneIncidentEntry ==
  [][ LET started == "triggerAlarm" \in calls' /\ ~isAlarmPlayingRef
          requested == IF started /\ platform.geo THEN 1 ELSE 0
          unsupported == IF started /\ ~platform.geo THEN 1 ELSE 0
          completed == Len(geoPending) + requested - Len(geoPending')
      IN  /\ completed \in {0, 1}
          /\ \/ IncidentCount(logs') = IncidentCount(logs) + completed + unsupported
             \/ /\ logs' # logs /\ Len(logs') = 1 /\ Head(logs').message = <<"cleared">>
                /\ completed = 0 /\ unsupported = 0
          /\ unsupported = 1
               => /\ Head(logs').message = <<"alarm", Head(logs').message[2], "unsupported">>
                  /\ ~Head(logs').coordinates
          /\ completed = 1
               => /\ geoPending' = Tail(geoPending)
                  /\ Len(logs') = Len(logs) + 1
                  /\ \/ /\ Head(logs').message = <<"alarm", Head(geoPending)>>
                        /\ Head(logs').coordinates
                     \/ /\ Head(logs').message = <<"alarm", Head(geoPending), "unavailable">>
                        /\ ~Head(logs').coordinates ]_vars

\* The position request of the alarm that is sounding has completed with
\* coordinates, and its entry is the only incident entry of the log.
C14_Witness ==
  /\ getCurrentStatus = "Alarming"
  /\ geoPending = << >>
  /\ logs # << >>
  /\ Head(logs).message[1] = "alarm" /\ Head(logs).coordinates
  /\ IncidentCount(logs) = 1

\* C15: the log never has more than 50 entries; addLogEntry puts the new
\* entry first and keeps the previous entries behind it unchanged and in
\* order: all of them if there were fewer than 50, and all but the last
\* (oldest) if there were 50.
C15_LogCapacity ==
  /\ [](Len(logs) <= 50)
  /\ [][ "addLogEntry" \in calls'
           => /\ logs' # << >> /\ Head(logs').id = now
              /\ Head(logs').message \in LogMessages
              /\ IF Len(logs) = 50
                   THEN /\ Len(logs') = 50
                        /\ \A i \in 1..49 : logs'[i + 1] = logs[i]
                   ELSE Tail(logs') = logs ]_vars

\* addLogEntry has just been called on a log that was full: the log has 50
\* entries, the newest first, and no longer holds the entry of id 0.
C15_Witness ==
  /\ "addLogEntry" \in calls
  /\ Len(logs) = 50
  /\ logs[1].id = now /\ logs[50].id > 0

\* C16: after clearLogs the log has exactly one entry, the marker of the
\* clearing, without coordinates, whatever it held before (nothing, one entry,
\* 49 or 50 entries).
C16_ClearLeavesMarker ==
  [][ "clearLogs" \in calls'
        => /\ Len(logs') = 1
           /\ logs'[1].message = <<"cleared">>
           /\ ~logs'[1].coordinates ]_vars

\* clearLogs has just been called, two milliseconds after the start.
C16_Witness ==
  /\ "clearLogs" \in calls
  /\ Len(logs) = 1 /\ logs[1].message = <<"cleared">>
  /\ now = LogClockStart + 2

\* C17: the ids of the entries in the log are pairwise distinct.
C17_DistinctIds ==
  \A i, j \in 1..Len(logs) : i # j => logs[i].id # logs[j].id

\* C18: alarmVolume stays within [0, 1] (in hundredths: 0..100); a call of
\* adjustVolume changes it by 0.1 up or down, except that an increment that
\* would pass 1 gives exactly 1 and a decrement that would pass 0 gives
\* exactly 0.
C18_VolumeClamped ==
  /\ [](alarmVolume >= 0 /\ alarmVolume <= 100)
  /\ [][ \/ alarmVolume' = alarmVolume + 10 /\ alarmVolume + 10 <= 100
         \/ alarmVolume' = 100 /\ alarmVolume + 10 > 100
         \/ alarmVolume' = alarmVolume - 10 /\ alarmVolume - 10 >= 0
         \/ alarmVolume' = 0 /\ alarmVolume - 10 < 0 ]_vars

\* The volume is at 1 after a click on a volume button, and rendered.
C18_Witness ==
  /\ alarmVolume = 100 /\ rendered.alarmVolume = 100
  /\ audioContextRef # Null

\* The entries appended since the service was last toggled on.
RECURSIVE SinceArming(_)
SinceArming(l) ==
  IF l = << >> \/ Head(l).message = <<"arming">> THEN << >>
  ELSE <<Head(l)>> \o SinceArming(Tail(l))

InSeq(x, seq) == \E i \in 1..Len(seq) : seq[i] = x

\* C19: a sensor whose start has failed (its constructor or start() threw,
\* or its error event has fired) is not in supportedSensors and has no
\* 'activated' entry among the entries of the current activation.
C19_FailedSensorExcluded ==
  \A kind \in GenericKinds :
    (isServiceActive /\ ~isArming
       /\ (kind \in platform.throws \/ SensorRef(Cur, kind) = "errored"))
      => /\ ~InSeq(kind, supportedSensors)
         /\ \A i \in 1..Len(SinceArming(logs)) :
              SinceArming(logs)[i].message # <<"activated", kind>>

\* The sensors the platform has.
Available(pf) ==
  (IF pf.gyroscope THEN {"gyroscope"} ELSE {})
  \cup (IF pf.proximity = "sensor" THEN {"proximity"} ELSE {})
  \cup (IF pf.light THEN {"light"} ELSE {})
  \cup (IF pf.magnetometer THEN {"magnetometer"} ELSE {})
  \cup (IF pf.barometer THEN {"barometer"} ELSE {})

\* C20: whichever sensors fail to start (here: no accelerometer, three or
\* more of the other five throwing, some of the rest failing with an error
\* event), the arming timer makes the state Active, Arming leads to Active
\* (or to Inactive, by the user), and once Active is rendered every sensor
\* that does not fail is started and in supportedSensors.
C20_FailuresAreIsolated ==
  /\ [][ (armingTimeoutRef = "pending" /\ armingTimeoutRef' = "done")
           => getCurrentStatus' = "Active" ]_vars
  /\ getCurrentStatus = "Arming" ~> getCurrentStatus \in {"Active", "Inactive"}
  /\ [](( /\ isServiceActive /\ ~isArming
          /\ rendered.isServiceActive /\ ~rendered.isArming )
          => \A kind \in Available(platform) \ (platform.throws \cup platform.errors) :
               /\ SensorRef(Cur, kind) = "started"
               /\ InSeq(kind, supportedSensors))

\* Active is rendered on a platform on which three sensors throw: the other
\* two are started and listed.
C20_Witness ==
  /\ getCurrentStatus = "Active" /\ rendered.isServiceActive /\ ~rendered.isArming
  /\ platform.throws = {"gyroscope", "proximity", "light"} /\ platform.errors = {}
  /\ magnetometerRef = "started" /\ barometerRef = "started"
  /\ Len(supportedSensors) = 2

\* C21: the flags encode exactly one ServiceState: isArming implies
\* isServiceActive, and isAlarmPlaying implies isServiceActive and not
\* isArming.
C21_FlagsEncodeOneState ==
  /\ isArming => isServiceActive
  /\ isAlarmPlaying => (isServiceActive /\ ~isArming)

\* C22: the gain of the tone being played is the current alarmVolume: every
\* burst starts with the volume that is current at that moment (and
\* adjustVolume sets the gain of the tone in flight to the new volume).
C22_BurstUsesCurrentVolume ==
  gainNodeRef # Null => gainValue = alarmVolume

\* C23: whenever the state is Alarming the siren repeat timer is pending.
C23_SirenRepeatsWhileAlarming ==
  getCurrentStatus = "Alarming" => alarmIntervalRef = "active"

\* C24: a startAlarmSound call made while the siren is running (its repeat
\* timer is pending) plays no additional burst and leaves the timer in
\* place: no tone is started or stopped by the step.
C24_StartWhileRunningIsNoOp ==
  [][ (alarmIntervalRef = "active" /\ "startAlarmSound" \in calls')
        => /\ alarmIntervalRef' = alarmIntervalRef
           /\ oscillatorRef' = oscillatorRef
           /\ tonesInFlight' = tonesInFlight
           /\ endedPending' = endedPending ]_vars

\* The siren is silent in s: no repeat timer pending, no tone source held.
Silent(s) ==
  /\ s.alarmIntervalRef = Null /\ s.oscillatorRef = Null /\ s.gainNodeRef = Null
  /\ s.tonesInFlight = 0

\* C25: after stopAlarmSound (called by stopAlarm) no repeat timer is
\* pending and no tone source is held or in flight; while the siren is
\* stopped a tone starts only in a step that calls startAlarmSound; and
\* stopAlarmSound called again, or on a siren that was never started, changes
\* nothing.
C25_StopAlarmSound ==
  /\ [][ "stopAlarm" \in calls' => Silent(Cur)' ]_vars
  /\ [][ (alarmIntervalRef = Null /\ tonesInFlight' > tonesInFlight)
           => "startAlarmSound" \in calls' ]_vars
  /\ [](stopAlarmSound(stopAlarmSound(Cur)) = stopAlarmSound(Cur))
  /\ []((alarmIntervalRef = Null /\ oscillatorRef = Null /\ gainNodeRef = Null)
          => stopAlarmSound(Cur) = Cur)

\* stopAlarm has just silenced a siren whose tone was in flight.
C25_Witness ==
  /\ "stopAlarm" \in calls /\ getCurrentStatus = "Inactive"
  /\ alarmIntervalRef = Null /\ oscillatorRef = Null /\ tonesInFlight = 0
  /\ endedPending

C27_OneToneInFlight ==
  /\ [](tonesInFlight = IF oscillatorRef # Null THEN 1 ELSE 0)
  /\ [][ (oscillatorRef # Null /\ oscillatorRef' # Null)
            => tonesInFlight' = 1 ]_vars
  /\ [][ (endedPending /\ ~endedPending')
            => /\ oscillatorRef' = oscillatorRef
               /\ gainNodeRef' = gainNodeRef
               /\ gainValue' = gainValue
               /\ tonesInFlight' = tonesInFlight ]_vars

\* A burst has replaced a tone in flight and the replaced tone's onended
\* callback has not run yet.
C27_Witness ==
  endedPending /\ oscillatorRef # Null /\ tonesInFlight = 1 /\ isAlarmPlaying

\* C28: in Active, a gyroscope reading calls triggerAlarm exactly when on at
\* least one axis it differs from the gyroscope's previous reading by more
\* than GYROSCOPE_THRESHOLD, whatever the other axes read.
C28_RotationTriggers ==
  [][ ( /\ "onreading" \in calls'
        /\ getCurrentStatus = "Active"
        /\ Len(gyroscopeReadings') = 2 )
      => ( "triggerAlarm" \in calls'
             <=> \E axis \in 1..3 :
                   Abs(gyroscopeReadings'[2][axis] - gyroscopeReadings'[1][axis])
                     > GYROSCOPE_THRESHOLD ) ]_vars

\* A reading callback accepts the reading r in s: the refs let it pass and
\* the reading has a value.
Accepted(s, r) == ~Gated(s) /\ r # NoReading

\* C29: accelerometer, ambient light, magnetometer, barometer: in Active,
\* with the sensor's baseline present, the callback applied to any reading it
\* accepts leaves the baseline equal to that reading, whether or not the
\* reading calls triggerAlarm.
C29_BaselineFollowsReading ==
  getCurrentStatus = "Active" =>
    /\ \A r \in AccelReadings :
         (motionListener /\ lastAccelRef # NoReading /\ Accepted(Cur, r))
           => motionHandlerInternal(Delivering("accelerometer"), r).lastAccelRef = r
    /\ \A r \in LightReadings :
         ( /\ lightSensorRef = "started" /\ lastIlluminanceRef # NoReading
           /\ Accepted(Cur, r) )
           => lightOnReading(Delivering("light"), r).lastIlluminanceRef = r
    /\ \A r \in MagnetometerReadings :
         ( /\ magnetometerRef = "started"
           /\ lastMagnetometerReadingRef # NoReading /\ Accepted(Cur, r) )
           => magnetometerOnReading(Delivering("magnetometer"), r)
                .lastMagnetometerReadingRef = r
    /\ \A r \in PressureReadings :
         ( /\ barometerRef = "started" /\ lastPressureRef # NoReading
           /\ Accepted(Cur, r) )
           => barometerOnReading(Delivering("barometer"), r).lastPressureRef = r

\* An accelerometer reading has just raised the alarm, which needs a
\* baseline, and the baseline is a reading.
C29_Witness ==
  /\ calls = {"triggerAlarm", "startAlarmSound"}
  /\ platform.motion # "none"
  /\ lastAccelRef \in AccelReadings

\* The number of entries of l that record the start of the sensor of a kind.
RECURSIVE StartCount(_, _)
StartCount(kind, l) ==
  IF l = << >> THEN 0
  ELSE (IF Head(l).message = <<"activated", kind>> THEN 1 ELSE 0)
       + StartCount(kind, Tail(l))

BaselineOf(kind) ==
  CASE kind = "accelerometer" -> lastAccelRef
    [] kind = "light" -> lastIlluminanceRef
    [] kind = "magnetometer" -> lastMagnetometerReadingRef
    [] kind = "barometer" -> lastPressureRef

AllBaselinesEmpty == Baselines = << NoReading, NoReading, NoReading, NoReading >>

\* C30: all four baselines are empty right after the arming timer promotes
\* Arming to Active, right after a toggleService that deactivates and right
\* after stopAlarm; and the baseline of a sensor is empty right after every
\* step that starts or restarts that sensor (the step that appends its
\* "ativado" entry).
C30_BaselinesReset ==
  [][ /\ (getCurrentStatus = "Arming" /\ getCurrentStatus' = "Active")
           => AllBaselinesEmpty'
      /\ ("toggleService" \in calls' /\ ~isServiceActive') => AllBaselinesEmpty'
      /\ "stopAlarm" \in calls' => AllBaselinesEmpty'
      /\ \A kind \in {"accelerometer", "light", "magnetometer", "barometer"} :
           StartCount(kind, logs') > StartCount(kind, logs)
             => BaselineOf(kind)' = NoReading ]_vars

\* C31: whenever the state is Inactive, supportedSensors is empty.
C31_InactiveHasNoSensors ==
  getCurrentStatus = "Inactive" => supportedSensors = << >>

\* C32: a step of adjustVolume (the steps that change alarmVolume) taken
\* while a tone is sounding and the audio context is running sets the gain of
\* that tone to the new volume, which is the old one moved by one step and
\* clamped to 0..1.
C32_GainFollowsVolume ==
  [][ ( /\ alarmVolume' # alarmVolume
        /\ oscillatorRef # Null /\ gainNodeRef # Null
        /\ audioContextRef = "running" )
      => /\ gainValue' = alarmVolume'
         /\ gainNodeRef' = gainNodeRef /\ oscillatorRef' = oscillatorRef
         /\ \E delta \in {VOLUME_STEP, -VOLUME_STEP} :
              alarmVolume' = Max(0, Min(MAX_VOLUME, alarmVolume + delta)) ]_vars

\* The volume was changed while a tone of the siren sounds: the tone's gain is
\* the new volume, not the one the repeat timer's burst was started with.
C32_Witness ==
  /\ alarmIntervalRef = "active" /\ oscillatorRef # Null
  /\ gainValue = alarmVolume /\ gainValue # intervalVolume

\* C33: appendErrorMessage is idempotent: on every advisory text, appending a
\* message twice gives the text that appending it once gives; and a message
\* of the text that has the base of the new message is kept, unless the new
\* message is strictly longer, and then the new message is in the text and
\* the old one is not.
C33_AppendIdempotent ==
  \A newMessage \in ErrorTexts :
    LET once == appendErrorMessageText(errorText, newMessage)
        before == Split(errorText, <<"\n">>)
        after == Split(once, <<"\n">>)
    IN  /\ appendErrorMessageText(once, newMessage) = once
        /\ \A i \in 1..Len(before) :
             (errorText # << >> /\ MessageBase(before[i]) = MessageBase(newMessage))
               => IF Len(newMessage) > Len(before[i])
                    THEN InSeq(newMessage, after) /\ ~InSeq(before[i], after)
                    ELSE InSeq(before[i], after)

\* C34: a step of adjustVolume (the steps that change alarmVolume), taken
\* with no other state change waiting to be rendered, appends no log entry,
\* leaves every sensor subscription as it is and leaves the service state,
\* the baselines and supportedSensors unchanged.
C34_VolumeChangesNothingElse ==
  [][ (alarmVolume' # alarmVolume /\ ~NeedsRender(Cur))
      => /\ logs' = logs
         /\ Baselines' = Baselines
         /\ supportedSensors' = supportedSensors
         /\ getCurrentStatus' = getCurrentStatus
         /\ LiveKinds(Cur)' = LiveKinds(Cur) ]_vars

\* C35: the main button forwards toggleService only when the state is
\* Inactive or Active; in Arming it forwards nothing, and while the alarm is
\* playing a click on it calls stopAlarm, not toggleService.
C35_ToggleForwarded ==
  [][ /\ "toggleService" \in calls' => getCurrentStatus \in {"Inactive", "Active"}
      /\ (isAlarmPlaying /\ ({"toggleService", "stopAlarm"} \cap calls') # {})
           => "toggleService" \notin calls' ]_vars

StatusOf(s) ==
  IF s.isAlarmPlaying THEN "Alarming"
  ELSE IF s.isArming THEN "Arming"
  ELSE IF s.isServiceActive THEN "Active"
  ELSE "Inactive"

\* The states one click of the user leads to from s: toggleService, or
\* stopAlarm where the main button shows it.
Clicks(s) ==
  {ClickToggle(s)} \cup (IF s.rendered.isAlarmPlaying THEN {ClickStop(s)} ELSE {})

\* At most two clicks lead from the current state to Inactive.
InactiveReachable ==
  \/ getCurrentStatus = "Inactive"
  \/ \E s1 \in Clicks(Cur) :
       \/ StatusOf(s1) = "Inactive"
       \/ \E s2 \in Clicks(s1) : StatusOf(s2) = "Inactive"

C37_FetchHandling ==
  /\ [][ ( /\ worker.phase = "matching" /\ worker'.phase # "matching"
            /\ worker.request.mode = "other"
            /\ cacheMatch(worker.cache, worker.request) # {} )
          => /\ worker'.phase = "done"
             /\ worker'.response.from = "cache"
             /\ \E e \in worker.cache :
                  e.url = worker.request.url /\ e.status = worker'.response.status
             /\ ~worker'.fetched ]_vars
  /\ []( (worker.phase \notin {"installing", "idle"} /\ worker.request.mode = "navigate")
          => /\ worker.fetched
             /\ worker.matched => worker.failed )
  /\ [](\A e \in worker.written \cup worker.puts :
          e.status = 200 /\ e.method = "GET")

\* A request that is not a navigation has just been answered from the cache
\* with an entry that the fetch handler wrote.
C37_Witness ==
  /\ worker.phase = "done" /\ worker.request.mode = "other"
  /\ worker.response.from = "cache" /\ ~worker.fetched
  /\ \E e \in worker.written : e.url = worker.request.url

====
